---- MODULE Spec2Model ----
(***************************************************************************)
(* A model of the SoW validator: the PDF splitter (pdf_splitter_helper),   *)
(* the two retry decorators (retry_on_http_error, retry_on_gemini_error)   *)
(* and the run of SowReviewOrchestrator with its knowledge-base loader and *)
(* its cleanup phase.  Three specifications share the module:              *)
(*   SpecSplit  one file on disk, handed to PdfSplitterHelper              *)
(*   SpecRetry  one call through one of the retry decorators               *)
(*   SpecRun    runs of SowReviewOrchestrator.run on one orchestrator      *)
(***************************************************************************)
EXTENDS Integers, Sequences, FiniteSets

VARIABLES
    \* ---- PdfSplitterHelper ----
    file_size,          \* os.path.getsize(file_path), in bytes
    total_pages,        \* len(reader.pages) of the file
    split_status,       \* "idle" | "ok" | "SizeExceeded" | "ranges"
    num_fragments,      \* the fragment count the call used
    page_ranges,        \* the value of _get_pdf_page_ranges
    output_fragments,   \* the value of split_pdf
    \* ---- one call through a retry decorator ----
    w_kind,             \* "http" (retry_on_http_error) | "gemini" (retry_on_gemini_error)
    max_retries,        \* the decorator's max_retries
    backoff_factor,     \* the decorator's backoff_factor
    retries,            \* the wrapper's local counter
    w_pc,               \* "start" | "try" | "sleep" | "returned" | "raised"
    invocations,        \* the outcomes of func(*args, **kwargs), in order
    sleeps,             \* the minimum duration of every time.sleep, in order
    w_value,            \* the value returned, or the error raised with the call it came from
    last_sleep,         \* the argument of the last time.sleep, in tenths of a second
    \* ---- SowReviewOrchestrator, _KnowledgeBaseLoader, GeminiOrchestrator ----
    mode,               \* "developer" | "vertex": GeminiOrchestrator.is_vertex_ai_mode()
    n_prompts,          \* the number of prompts _load_and_parse_prompts finds
    sow_file,           \* <<byte size, pages>> of the SOW exported as PDF
    run_no,             \* how many times run() was called on the orchestrator
    r_pc,               \* where run() stands
    phases,             \* the phases this run started, in order
    failed_phase,       \* the phase that raised in this run, or "none"
    final_url,          \* final_url of run()
    uploaded_gemini_files,    \* the orchestrator's ledger
    uploaded_files_to_track,  \* the loader's list
    next_handle,        \* the name files.upload gives the next resource
    uploads,            \* the resources files.upload created in this run
    temp_files,         \* the loader's files on the local disk
    checklist_parts,    \* gemini_checklist_parts of load()
    sow_parts,          \* gemini_sow_parts of load()
    chat,               \* GeminiOrchestrator.chat: "None" | "session"
    prime_idx,          \* the priming prompts sent so far
    sent,               \* the messages sent to the model in this run
    analysis_text,      \* "none" | "tsv" | "no_tsv": the analysis and its fenced block
    copy_title,         \* the title _generate_report gives the copy
    report_calls,       \* the Drive and Sheets calls of _generate_report
    cleanup_idx,        \* the position of _cleanup in the ledger
    del_retries,        \* retries of the wrapper around the current delete call
    delete_calls,       \* the names _cleanup passed to gemini.delete_file
    deleted_before,     \* the names the earlier runs passed to gemini.delete_file
    backend_deletes,    \* the calls of client.files.delete: <<name, outcome>>
    \* one decorated call of GeminiOrchestrator.process_file_for_gemini
    t_mode,             \* the orchestrator's backend: "developer" | "vertex"
    t_mime,             \* the mime_type argument
    t_events,           \* per invocation of the body, what it did with the file
    t_uploads,          \* the resources client.files.upload created
    t_parts,            \* the list the call returned
    \* one GeminiOrchestrator, its methods called in any order
    g_mode,             \* client.vertexai: "developer" | "vertex"
    g_model_name,       \* self.model_name: "None" | "" | "model"
    g_chat,             \* self.chat: "None" | "session"
    g_pc,               \* "idle" | "priming" (inside prime_chat_context's loop)
    g_left,             \* prompts prime_chat_context has still to send
    g_ops,              \* the method calls made so far
    g_sends,            \* the calls of self.chat.send_message so far
    g_creates,          \* the calls of client.chats.create so far
    g_uploads,          \* the resources client.files.upload created so far
    g_last,             \* the last method call: its arguments and what it did
    \* one call of GoogleDriveHelper.download_file_content or export_file
    d_op,               \* the method called
    d_outer,            \* retries of the wrapper around the method
    d_inner,            \* retries of the wrapper around _download_media
    d_pc,               \* "start" | "download" | "inner_sleep" | "outer_sleep" | "returned" | "raised"
    d_downloads,        \* the executions of the body of _download_media
    d_sleeps,           \* the calls of time.sleep, of both wrappers
    d_result,           \* what the last download attempt answered
    \* the two retry wrappers side by side, on the same outcomes
    p_max_retries,      \* max_retries of both decorators
    p_backoff_factor,   \* backoff_factor of both decorators
    p_outcomes,         \* the outcome of the i-th invocation, for both
    p_http,             \* the call through retry_on_http_error
    p_gemini            \* the call through retry_on_gemini_error

splitVars == <<file_size, total_pages, split_status, num_fragments,
               page_ranges, output_fragments>>

retryVars == <<w_kind, max_retries, backoff_factor, retries, w_pc,
               invocations, sleeps, w_value, last_sleep>>

runVars == <<mode, n_prompts, sow_file, run_no, deleted_before, r_pc, phases,
             failed_phase,
             final_url, uploaded_gemini_files, uploaded_files_to_track,
             next_handle, uploads, temp_files, checklist_parts, sow_parts, chat,
             prime_idx, sent, analysis_text, copy_title, report_calls,
             cleanup_idx, del_retries, delete_calls, backend_deletes>>

transferVars == <<t_mode, t_mime, t_events, t_uploads, t_parts>>

geminiVars == <<g_mode, g_model_name, g_chat, g_pc, g_left, g_ops, g_sends,
                g_creates, g_uploads, g_last>>

driveVars == <<d_op, d_outer, d_inner, d_pc, d_downloads, d_sleeps, d_result>>

pairVars == <<p_max_retries, p_backoff_factor, p_outcomes, p_http, p_gemini>>

vars == <<splitVars, retryVars, runVars, transferVars, geminiVars, driveVars,
          pairVars>>

(***************************************************************************)
(* Bounds of the model.                                                    *)
(***************************************************************************)
MaxSizeMB == 31
MaxPages == 50
MaxNumFragments == 4
MaxRetries == 5
MaxBackoff == 2
MaxRuns == 2
MaxPrompts == 2
MaxOps == 3

(***************************************************************************)
(* PdfSplitterHelper                                                       *)
(***************************************************************************)
MAX_TOTAL_SIZE_MB == 30
MEDIUM_FILE_THRESHOLD_MB == 10
LARGE_FILE_THRESHOLD_MB == 20

\* 1024 * 1024: file_size_mb = getsize / (1024 * 1024).  The division is by a
\* power of two, exact in floating point, so a comparison of file_size_mb
\* with t is the comparison of the byte size with t * MB.
MB == 1024 * 1024

SizeMbGt(size, t) == size > t * MB
SizeMbGe(size, t) == size >= t * MB

\* File sizes around every whole megabyte from 0 to MaxSizeMB.
Sizes == {s \in {k * MB + d : k \in 0..MaxSizeMB, d \in {-1, 0, 1}} : s >= 0}

Range(s) == {s[i] : i \in DOMAIN s}

\* range(start, end) of Python, as a sequence
PyRange(start, end) ==
    IF end <= start THEN <<>> ELSE [k \in 1..(end - start) |-> start + k - 1]

get_pdf_page_ranges_NoRemainder(pages, n) ==
    IF n <= 0 \/ pages = 0
    THEN <<>>
    ELSE LET pages_per_fragment == pages \div n
         IN  [i \in 1..n |-> <<(i - 1) * pages_per_fragment,
                               i * pages_per_fragment>>]

get_pdf_page_ranges_RoundUp(pages, n) ==
    IF n <= 0 \/ pages = 0
    THEN <<>>
    ELSE LET pages_per_fragment == (pages + n - 1) \div n
         IN  [i \in 1..n |->
                <<(i - 1) * pages_per_fragment,
                  IF i = n THEN pages ELSE i * pages_per_fragment>>]

get_pdf_page_ranges_NeverEmpty(pages, n) ==
    IF n <= 0
    THEN <<>>
    ELSE [i \in 1..n |-> <<(i - 1) * (pages \div n),
                           IF i = n THEN pages ELSE i * (pages \div n)>>]

\* _get_pdf_page_ranges: element i of the result is the range of fragment i-1
get_pdf_page_ranges(pages, n) ==
    IF n <= 0 \/ pages = 0
    THEN <<>>
    ELSE LET pages_per_fragment == pages \div n
         IN  [i \in 1..n |->
                LET start_page == (i - 1) * pages_per_fragment
                    end_page   == IF i - 1 = n - 1
                                  THEN pages
                                  ELSE i * pages_per_fragment
                IN  <<start_page, end_page>>]

NumFragmentsFor_NoSingle(size) ==
    IF SizeMbGe(size, LARGE_FILE_THRESHOLD_MB) THEN 3 ELSE 2

NumFragmentsFor_Strict(size) ==
    IF SizeMbGt(size, LARGE_FILE_THRESHOLD_MB) THEN 3
    ELSE IF SizeMbGt(size, MEDIUM_FILE_THRESHOLD_MB) THEN 2
    ELSE 1

\* the fragment count split_pdf selects from the size
NumFragmentsFor(size) ==
    IF SizeMbGe(size, LARGE_FILE_THRESHOLD_MB) THEN 3
    ELSE IF SizeMbGe(size, MEDIUM_FILE_THRESHOLD_MB) THEN 2
    ELSE 1

\* the pages one fragment's writer receives: the pages of its range that exist
FragmentPages(pages, r) ==
    SelectSeq(PyRange(r[1], r[2]), LAMBDA p : p < pages)

BuildFragments_Descending(pages, n, ranges) ==
    [i \in 1..Len(ranges) |->
        [name  |-> <<Len(ranges) + 1 - i, n>>,
         start |-> ranges[Len(ranges) + 1 - i][1],
         end   |-> ranges[Len(ranges) + 1 - i][2],
         pages |-> FragmentPages(pages, ranges[Len(ranges) + 1 - i])]]

\* the loop of split_pdf over the page ranges
BuildFragments(pages, n, ranges) ==
    [i \in 1..Len(ranges) |->
        [name  |-> <<i, n>>,
         start |-> ranges[i][1],
         end   |-> ranges[i][2],
         pages |-> FragmentPages(pages, ranges[i])]]

\* split_pdf(file_path) for a file of `size` bytes and `pages` pages: the
\* size check, the fragment count, the page ranges and the fragments
split_pdf_result(size, pages) ==
    IF SizeMbGt(size, MAX_TOTAL_SIZE_MB)
    THEN [status |-> "SizeExceeded", n |-> 0, ranges |-> <<>>,
          fragments |-> <<>>]
    ELSE LET n      == NumFragmentsFor(size)
             ranges == get_pdf_page_ranges(pages, n)
         IN  [status |-> "ok", n |-> n, ranges |-> ranges,
              fragments |-> BuildFragments(pages, n, ranges)]

\* split_pdf(file_path) on the file on disk
split_pdf ==
    /\ split_status = "idle"
    /\ LET r == split_pdf_result(file_size, total_pages)
       IN  /\ split_status' = r.status
           /\ IF r.status = "ok"
              THEN /\ num_fragments' = r.n
                   /\ page_ranges' = r.ranges
                   /\ output_fragments' = r.fragments
              ELSE UNCHANGED <<num_fragments, page_ranges, output_fragments>>
    /\ UNCHANGED <<file_size, total_pages>>

\* a direct call of _get_pdf_page_ranges(reader, n)
get_pdf_page_ranges_call ==
    /\ split_status = "idle"
    /\ \E n \in -1..MaxNumFragments :
         /\ num_fragments' = n
         /\ page_ranges' = get_pdf_page_ranges(total_pages, n)
    /\ split_status' = "ranges"
    /\ UNCHANGED <<file_size, total_pages, output_fragments>>

\* no file is being split
IdleSplit ==
    /\ file_size = 0
    /\ total_pages = 0
    /\ split_status = "none"
    /\ num_fragments = 0
    /\ page_ranges = <<>>
    /\ output_fragments = <<>>

(***************************************************************************)
(* The retry decorators                                                    *)
(***************************************************************************)
DEFAULT_MAX_RETRIES == 5

NoValue == [cls |-> "None", status |-> 0]

\* TRANSIENT_GEMINI_ERRORS of retry_on_gemini_error.py
TRANSIENT_GEMINI_ERRORS ==
    {"ResourceExhausted", "InternalServerError", "ServiceUnavailable",
     "DeadlineExceeded", "Aborted"}

\* The exceptions a wrapped operation raises in the model: HttpError with a
\* status, the google.api_core classes, and two that neither wrapper names.
HttpStatuses == {404, 429, 500, 503}
Errors ==
    {[cls |-> "HttpError", status |-> st] : st \in HttpStatuses}
    \cup {[cls |-> c, status |-> 0] :
            c \in TRANSIENT_GEMINI_ERRORS \cup {"NotFound", "ValueError"}}

HttpTransient_Any4xx(e) == e.cls = "HttpError" /\ e.status >= 400

\* except HttpError as e: if e.resp.status >= 500
HttpTransient(e) == e.cls = "HttpError" /\ e.status >= 500

GeminiTransient_ValueError(e) ==
    e.cls \in TRANSIENT_GEMINI_ERRORS \cup {"ValueError"}

GeminiTransient_Merged(e) ==
    e.cls \in TRANSIENT_GEMINI_ERRORS \/ (e.cls = "HttpError" /\ e.status >= 500)

\* except TRANSIENT_GEMINI_ERRORS as e
GeminiTransient(e) == e.cls \in TRANSIENT_GEMINI_ERRORS

IsTransient(kind, e) ==
    IF kind = "http" THEN HttpTransient(e) ELSE GeminiTransient(e)

LoopCond_Early(kind, r, n) == IF kind = "http" THEN r < n - 1 ELSE TRUE

\* the loop condition: while retries < max_retries (http), while True (gemini)
LoopCond(kind, r, n) == IF kind = "http" THEN r < n ELSE TRUE

RECURSIVE Pow2(_)
Pow2(k) == IF k <= 0 THEN 1 ELSE 2 * Pow2(k - 1)

SleepBase_Linear(b, r) == b * r

\* backoff_factor * (2 ** (retries - 1)), the sleep without its jitter
SleepBase(b, r) == b * Pow2(r - 1)

\* random.uniform(0, 1), in tenths of a second
Jitters == {0, 5, 10}

\* sleep_time = backoff_factor * (2 ** (retries - 1)) + random.uniform(0, 1),
\* in tenths of a second
SleepTime(b, r, jitter) == 10 * SleepBase(b, r) + jitter

\* entering the wrapper: retries = 0 and the first test of the loop condition
\* (the http wrapper with max_retries <= 0 falls out of the loop and returns
\* None)
WrapperEnter ==
    /\ w_pc = "start"
    /\ retries' = 0
    /\ IF LoopCond(w_kind, 0, max_retries)
       THEN w_pc' = "try" /\ UNCHANGED w_value
       ELSE w_pc' = "returned" /\ w_value' = <<NoValue, 0>>
    /\ UNCHANGED <<w_kind, max_retries, backoff_factor, invocations, sleeps,
                   last_sleep>>

\* return func(*args, **kwargs), the call succeeding
InvokeReturns ==
    /\ w_pc = "try"
    /\ invocations' = Append(invocations, [res |-> "ok", err |-> NoValue])
    /\ w_pc' = "returned"
    /\ w_value' = <<[cls |-> "Result", status |-> 0], Len(invocations) + 1>>
    /\ UNCHANGED <<w_kind, max_retries, backoff_factor, retries, sleeps,
                   last_sleep>>

GiveUp_OffByOne(r, n) == r > n

\* if retries >= max_retries: raise
GiveUp(r, n) == r >= n

\* func raises an error the wrapper classifies as transient
InvokeRaisesTransient ==
    /\ w_pc = "try"
    /\ \E e \in Errors :
         /\ IsTransient(w_kind, e)
         /\ invocations' = Append(invocations, [res |-> "err", err |-> e])
         /\ retries' = retries + 1
         /\ IF GiveUp(retries + 1, max_retries)
            THEN /\ w_pc' = "raised"
                 /\ w_value' = <<e, Len(invocations) + 1>>
            ELSE /\ w_pc' = "sleep"
                 /\ UNCHANGED w_value
    /\ UNCHANGED <<w_kind, max_retries, backoff_factor, sleeps, last_sleep>>

\* func raises any other error: it leaves the wrapper at once
InvokeRaisesOther ==
    /\ w_pc = "try"
    /\ \E e \in Errors :
         /\ ~IsTransient(w_kind, e)
         /\ invocations' = Append(invocations, [res |-> "err", err |-> e])
         /\ w_pc' = "raised"
         /\ w_value' = <<e, Len(invocations) + 1>>
    /\ UNCHANGED <<w_kind, max_retries, backoff_factor, retries, sleeps,
                   last_sleep>>

\* time.sleep(sleep_time), then the loop condition again
Sleep ==
    /\ w_pc = "sleep"
    /\ sleeps' = Append(sleeps, SleepBase(backoff_factor, retries))
    /\ \E jitter \in Jitters :
         last_sleep' = SleepTime(backoff_factor, retries, jitter)
    /\ IF LoopCond(w_kind, retries, max_retries)
       THEN w_pc' = "try" /\ UNCHANGED w_value
       ELSE w_pc' = "returned" /\ w_value' = <<NoValue, 0>>
    /\ UNCHANGED <<w_kind, max_retries, backoff_factor, retries, invocations>>

\* no wrapped call is in progress
IdleRetry ==
    /\ w_kind = "none"
    /\ max_retries = 0
    /\ backoff_factor = 0
    /\ retries = 0
    /\ w_pc = "none"
    /\ invocations = <<>>
    /\ sleeps = <<>>
    /\ w_value = <<NoValue, 0>>
    /\ last_sleep = 0

(***************************************************************************)
(* retry_on_http_error and retry_on_gemini_error side by side              *)
(***************************************************************************)
\* What one invocation of the wrapped function does: it returns, it raises an
\* error its wrapper retries, or it raises another error.
Outcomes == {"ok", "transient", "other"}

\* The exception an outcome is under each wrapper: a 503 HttpError or
\* ServiceUnavailable for the transient one, a ValueError for the other.
OutcomeError(kind, o) ==
    IF o = "transient"
    THEN IF kind = "http"
         THEN [cls |-> "HttpError", status |-> 503]
         ELSE [cls |-> "ServiceUnavailable", status |-> 0]
    ELSE [cls |-> "ValueError", status |-> 0]

\* a call that has been made and has not yet entered wrapper
WrapperCalled ==
    [pc |-> "start", retries |-> 0, invocations |-> 0, sleeps |-> <<>>,
     value |-> <<"None", 0>>]

\* retries = 0 and the first test of the loop condition
WrapperStart(kind, w, n) ==
    [w EXCEPT !.retries = 0,
              !.pc = IF LoopCond(kind, 0, n) THEN "try" ELSE "returned"]

\* return func(*args, **kwargs) with outcome o, and the except clause
WrapperInvoke(kind, w, n, o) ==
    LET k == w.invocations + 1
    IN  IF o = "ok"
        THEN [w EXCEPT !.invocations = k, !.pc = "returned",
                       !.value = <<"ok", k>>]
        ELSE IF IsTransient(kind, OutcomeError(kind, o))
        THEN IF GiveUp(w.retries + 1, n)
             THEN [w EXCEPT !.invocations = k, !.retries = w.retries + 1,
                            !.pc = "raised", !.value = <<o, k>>]
             ELSE [w EXCEPT !.invocations = k, !.retries = w.retries + 1,
                            !.pc = "sleep"]
        ELSE [w EXCEPT !.invocations = k, !.pc = "raised",
                       !.value = <<o, k>>]

\* time.sleep(sleep_time), then the loop condition again
WrapperSleep(kind, w, n, b) ==
    [w EXCEPT !.sleeps = Append(w.sleeps, SleepBase(b, w.retries)),
              !.pc = IF LoopCond(kind, w.retries, n) THEN "try" ELSE "returned"]

\* both calls enter their wrapper
PairEnter ==
    /\ p_http.pc = "start"
    /\ p_gemini.pc = "start"
    /\ p_http' = WrapperStart("http", p_http, p_max_retries)
    /\ p_gemini' = WrapperStart("gemini", p_gemini, p_max_retries)
    /\ UNCHANGED <<p_max_retries, p_backoff_factor, p_outcomes>>

\* the next invocation, with the same outcome for every wrapper that makes it
PairInvoke ==
    /\ p_http.pc = "try" \/ p_gemini.pc = "try"
    /\ \E o \in Outcomes :
         /\ p_outcomes' = Append(p_outcomes, o)
         /\ p_http' = IF p_http.pc = "try"
                      THEN WrapperInvoke("http", p_http, p_max_retries, o)
                      ELSE p_http
         /\ p_gemini' = IF p_gemini.pc = "try"
                        THEN WrapperInvoke("gemini", p_gemini, p_max_retries, o)
                        ELSE p_gemini
    /\ UNCHANGED <<p_max_retries, p_backoff_factor>>

\* the sleep of every wrapper that is about to sleep
PairSleep ==
    /\ p_http.pc = "sleep" \/ p_gemini.pc = "sleep"
    /\ p_http' = IF p_http.pc = "sleep"
                 THEN WrapperSleep("http", p_http, p_max_retries,
                                   p_backoff_factor)
                 ELSE p_http
    /\ p_gemini' = IF p_gemini.pc = "sleep"
                   THEN WrapperSleep("gemini", p_gemini, p_max_retries,
                                     p_backoff_factor)
                   ELSE p_gemini
    /\ UNCHANGED <<p_max_retries, p_backoff_factor, p_outcomes>>

\* no pair of calls is in progress
IdlePair ==
    /\ p_max_retries = 0
    /\ p_backoff_factor = 0
    /\ p_outcomes = <<>>
    /\ p_http = [pc |-> "none", retries |-> 0, invocations |-> 0,
                 sleeps |-> <<>>, value |-> <<"None", 0>>]
    /\ p_gemini = p_http

(***************************************************************************)
(* GeminiOrchestrator.process_file_for_gemini                              *)
(***************************************************************************)
PDF == "application/pdf"
CSV == "text/csv"

InlinePart_Untyped(mime, frag) ==
    [kind |-> "inline", mime |-> "application/octet-stream", frag |-> frag,
     name |-> 0]

\* types.Part.from_bytes(data=..., mime_type=...): frag is the fragment the
\* bytes are, 0 for the bytes of the whole file
InlinePart(mime, frag) ==
    [kind |-> "inline", mime |-> mime, frag |-> frag, name |-> 0]

FilePart(h) == [kind |-> "file", mime |-> "", frag |-> 0, name |-> h]

process_file_for_gemini_NoSizeCheck(m, mime, size, pages, up_ok, h) ==
    IF m = "vertex"
    THEN IF mime = PDF
         THEN LET pdf_fragments_data == split_pdf_result(size, pages)
              IN  [res   |-> pdf_fragments_data.status,
                   parts |-> [i \in 1..Len(pdf_fragments_data.fragments)
                                |-> InlinePart(PDF, i)],
                   events |-> <<"getsize", "split_pdf">>,
                   uploaded |-> FALSE]
         ELSE [res |-> "ok", parts |-> <<InlinePart(mime, 0)>>,
               events |-> <<"getsize", "read">>, uploaded |-> FALSE]
    ELSE IF up_ok
         THEN [res |-> "ok", parts |-> <<FilePart(h)>>,
               events |-> <<"getsize", "upload">>, uploaded |-> TRUE]
         ELSE [res |-> "raise", parts |-> <<>>,
               events |-> <<"getsize", "upload">>, uploaded |-> FALSE]

process_file_for_gemini_SplitsInDev(m, mime, size, pages, up_ok, h) ==
    IF mime = PDF /\ ~SizeMbGt(size, MAX_TOTAL_SIZE_MB)
    THEN LET pdf_fragments_data == split_pdf_result(size, pages)
         IN  [res   |-> pdf_fragments_data.status,
              parts |-> [i \in 1..Len(pdf_fragments_data.fragments)
                           |-> InlinePart(PDF, i)],
              events |-> <<"getsize", "split_pdf">>,
              uploaded |-> FALSE]
    ELSE IF m = "vertex"
    THEN [res |-> "ok", parts |-> <<InlinePart(mime, 0)>>,
          events |-> <<"getsize", "read">>, uploaded |-> FALSE]
    ELSE IF up_ok
         THEN [res |-> "ok", parts |-> <<FilePart(h)>>,
               events |-> <<"getsize", "upload">>, uploaded |-> TRUE]
         ELSE [res |-> "raise", parts |-> <<>>,
               events |-> <<"getsize", "upload">>, uploaded |-> FALSE]

process_file_for_gemini_AlwaysUpload(m, mime, size, pages, up_ok, h) ==
    IF up_ok
    THEN [res |-> "ok", parts |-> <<FilePart(h)>>,
          events |-> <<"getsize", "upload">>, uploaded |-> TRUE]
    ELSE [res |-> "raise", parts |-> <<>>,
          events |-> <<"getsize", "upload">>, uploaded |-> FALSE]

\* The result of process_file_for_gemini for a file of `size` bytes and
\* `pages` pages; up_ok says whether client.files.upload succeeds and h is the
\* name the upload gives the resource.  events lists, in order, what one
\* invocation of the body does with the file: "getsize" (os.path.getsize),
\* "split_pdf" (the splitter), "read" (open(...).read()), "upload"
\* (client.files.upload); uploaded says whether the upload created a resource.
process_file_for_gemini(m, mime, size, pages, up_ok, h) ==
    IF m = "vertex"
    THEN IF mime = PDF
         THEN IF SizeMbGt(size, MAX_TOTAL_SIZE_MB)
              THEN [res |-> "SizeExceeded", parts |-> <<>>,
                    events |-> <<"getsize">>, uploaded |-> FALSE]
              ELSE LET pdf_fragments_data == split_pdf_result(size, pages)
                   IN  [res   |-> pdf_fragments_data.status,
                        parts |-> [i \in 1..Len(pdf_fragments_data.fragments)
                                     |-> InlinePart(PDF, i)],
                        events |-> <<"getsize", "split_pdf">>,
                        uploaded |-> FALSE]
         ELSE [res |-> "ok", parts |-> <<InlinePart(mime, 0)>>,
               events |-> <<"getsize", "read">>, uploaded |-> FALSE]
    ELSE IF up_ok
         THEN [res |-> "ok", parts |-> <<FilePart(h)>>,
               events |-> <<"getsize", "upload">>, uploaded |-> TRUE]
         ELSE [res |-> "raise", parts |-> <<>>,
               events |-> <<"getsize", "upload">>, uploaded |-> FALSE]

\* the text of prompt `id` as an element of a prompt's content
TextPart(id) == [kind |-> "text", mime |-> "", frag |-> 0, name |-> id]

PromptContent_PartsFirst(id, cparts, sparts) ==
    (IF id = 1 THEN cparts ELSE <<>>) \o (IF id = 2 THEN sparts ELSE <<>>)
        \o <<TextPart(id)>>

\* load(): current_prompt_content = [text], extended by the checklist parts
\* for the prompt with id 1 and by the SOW parts for the prompt with id 2
PromptContent(id, cparts, sparts) ==
    <<TextPart(id)>> \o (IF id = 1 THEN cparts ELSE <<>>)
        \o (IF id = 2 THEN sparts ELSE <<>>)

\* load(): final_prompt_contents, one content per prompt of the n parsed, the
\* prompts numbered from 1 by _load_and_parse_prompts
LoadSequence(n, cparts, sparts) ==
    [id \in 1..n |-> PromptContent(id, cparts, sparts)]

\* for part in parts: if isinstance(part, types.File): append(part.name)
TrackNames(parts) ==
    LET files == SelectSeq(parts, LAMBDA p : p.kind = "file")
    IN  [i \in 1..Len(files) |-> files[i].name]

\* What client.files.upload raises in the model: one error the decorator
\* names and one it does not.
UploadErrors ==
    {[cls |-> "ServiceUnavailable", status |-> 0],
     [cls |-> "NotFound", status |-> 0]}

\* raise ValueError(f"PDF file ... exceeds maximum allowed size ...")
SizeExceededError == [cls |-> "ValueError", status |-> 0]

\* One invocation of the body of process_file_for_gemini by its decorator
\* @retry_on_gemini_error(), with what the decorator does with the outcome:
\* return the list, sleep before another invocation, or let the error out.
\* On the split path the splitter's state is that of its split_pdf call.
ProcessInvoke ==
    /\ w_pc = "try"
    /\ t_mode \in {"developer", "vertex"}
    /\ \E up_ok \in BOOLEAN : \E e \in UploadErrors :
         LET r   == process_file_for_gemini(t_mode, t_mime, file_size,
                                            total_pages, up_ok,
                                            Len(t_uploads) + 1)
             err == IF r.res = "SizeExceeded" THEN SizeExceededError ELSE e
             pdf == split_pdf_result(file_size, total_pages)
         IN  /\ (t_mode = "vertex" => up_ok)
             /\ t_events' = Append(t_events, r.events)
             /\ t_uploads' = IF r.uploaded
                             THEN Append(t_uploads, Len(t_uploads) + 1)
                             ELSE t_uploads
             /\ IF "split_pdf" \in Range(r.events)
                THEN /\ split_status' = pdf.status
                     /\ IF pdf.status = "ok"
                        THEN /\ num_fragments' = pdf.n
                             /\ page_ranges' = pdf.ranges
                             /\ output_fragments' = pdf.fragments
                        ELSE UNCHANGED <<num_fragments, page_ranges,
                                         output_fragments>>
                ELSE UNCHANGED <<split_status, num_fragments, page_ranges,
                                 output_fragments>>
             /\ IF r.res = "ok"
                THEN /\ invocations' =
                          Append(invocations, [res |-> "ok", err |-> NoValue])
                     /\ w_pc' = "returned"
                     /\ w_value' = <<[cls |-> "Result", status |-> 0],
                                     Len(invocations) + 1>>
                     /\ t_parts' = r.parts
                     /\ UNCHANGED retries
                ELSE /\ invocations' =
                          Append(invocations, [res |-> r.res, err |-> err])
                     /\ UNCHANGED t_parts
                     /\ IF IsTransient(w_kind, err)
                        THEN /\ retries' = retries + 1
                             /\ IF GiveUp(retries + 1, max_retries)
                                THEN /\ w_pc' = "raised"
                                     /\ w_value' = <<err, Len(invocations) + 1>>
                                ELSE /\ w_pc' = "sleep"
                                     /\ UNCHANGED w_value
                        ELSE /\ w_pc' = "raised"
                             /\ w_value' = <<err, Len(invocations) + 1>>
                             /\ UNCHANGED retries
    /\ UNCHANGED <<file_size, total_pages, w_kind, max_retries, backoff_factor,
                   sleeps, last_sleep, t_mode, t_mime>>

\* no call of process_file_for_gemini is in progress
IdleTransfer ==
    /\ t_mode = "none"
    /\ t_mime = "none"
    /\ t_events = <<>>
    /\ t_uploads = <<>>
    /\ t_parts = <<>>

(***************************************************************************)
(* SowReviewOrchestrator.run and what it calls                             *)
(***************************************************************************)
\* The SOW documents of the model, <<byte size, pages>>.
RunFiles == {<<5 * MB, 3>>, <<15 * MB, 1>>, <<25 * MB, 7>>, <<31 * MB, 3>>}

DeleteOutcomes == {"ok", "transient", "permanent"}

AfterRaise_NoFinally == "return"

AfterRaise_Propagate == "raised"

AfterRaise_GoesOn == "analyze_export"

\* except Exception ... finally: self._cleanup(): where run() goes on when a
\* phase raised
AfterRaise == "cleanup_start"

\* a phase raises inside run()
Raise(ph) ==
    /\ failed_phase' = ph
    /\ r_pc' = AfterRaise

LedgerExtend_Assign(ledger, files) == files

\* self.uploaded_gemini_files.extend(kb_files)
LedgerExtend(ledger, files) == ledger \o files

DeleteFuncResult_NoCatch(o) == o

DeleteFuncResult_Reraise(o) == IF o = "ok" THEN "ok" ELSE "permanent"

\* delete_gemini_developer_api_file: try: client.files.delete(...) except
\* Exception: print.  Whatever the backend answers, the function returns.
DeleteFuncResult(o) == "ok"

RemoveTemp_SowLeft(files, name) ==
    IF name = "sow.pdf" THEN files ELSE files \ {name}

\* finally: if os.path.exists(name): os.remove(name)
RemoveTemp(files, name) == files \ {name}

\* run() is called: final_url = None, and _prepare_gemini_session creates its
\* _KnowledgeBaseLoader
RunStart ==
    /\ r_pc \in {"idle", "returned"}
    /\ run_no < MaxRuns
    /\ run_no' = run_no + 1
    /\ r_pc' = "load_prompts"
    /\ phases' = <<"prepare">>
    /\ failed_phase' = "none"
    /\ final_url' = "None"
    /\ uploaded_files_to_track' = <<>>
    /\ uploads' = <<>>
    /\ checklist_parts' = <<>>
    /\ sow_parts' = <<>>
    /\ prime_idx' = 0
    /\ sent' = <<>>
    /\ analysis_text' = "none"
    /\ copy_title' = "none"
    /\ report_calls' = <<>>
    /\ cleanup_idx' = 0
    /\ del_retries' = 0
    /\ delete_calls' = <<>>
    /\ deleted_before' = deleted_before \o delete_calls
    /\ backend_deletes' = <<>>
    /\ UNCHANGED <<mode, n_prompts, sow_file, uploaded_gemini_files,
                   next_handle, temp_files, chat>>

\* _load_and_parse_prompts: the download, decode and parse
LoadPrompts ==
    /\ r_pc = "load_prompts"
    /\ \E ok \in BOOLEAN :
         IF ok
         THEN r_pc' = "checklist_export" /\ UNCHANGED failed_phase
         ELSE Raise("prepare")
    /\ UNCHANGED <<mode, n_prompts, sow_file, run_no, deleted_before, phases, final_url,
                   uploaded_gemini_files, uploaded_files_to_track, next_handle,
                   uploads, temp_files, checklist_parts, sow_parts, chat,
                   prime_idx, sent, analysis_text, copy_title, report_calls,
                   cleanup_idx, del_retries, delete_calls, backend_deletes>>

\* _prepare_checklist_for_gemini up to the open(...).write of checklist.csv
ChecklistExport ==
    /\ r_pc = "checklist_export"
    /\ \E ok \in BOOLEAN :
         IF ok
         THEN /\ temp_files' = temp_files \cup {"checklist.csv"}
              /\ r_pc' = "checklist_process"
              /\ UNCHANGED failed_phase
         ELSE /\ Raise("prepare")
              /\ UNCHANGED temp_files
    /\ UNCHANGED <<mode, n_prompts, sow_file, run_no, deleted_before, phases, final_url,
                   uploaded_gemini_files, uploaded_files_to_track, next_handle,
                   uploads, checklist_parts, sow_parts, chat,
                   prime_idx, sent, analysis_text, copy_title, report_calls,
                   cleanup_idx, del_retries, delete_calls, backend_deletes>>

\* _prepare_checklist_for_gemini from process_file_for_gemini to its finally
ChecklistProcess ==
    /\ r_pc = "checklist_process"
    /\ \E up_ok \in BOOLEAN :
         LET r == process_file_for_gemini(mode, CSV, 0, 0, up_ok, next_handle)
         IN  /\ (mode = "vertex" => up_ok)
             /\ IF r.uploaded
                THEN /\ next_handle' = next_handle + 1
                     /\ uploads' = Append(uploads, next_handle)
                ELSE UNCHANGED <<next_handle, uploads>>
             /\ IF r.res = "ok"
                THEN /\ checklist_parts' = r.parts
                     /\ uploaded_files_to_track' =
                            IF mode # "vertex"
                            THEN uploaded_files_to_track \o TrackNames(r.parts)
                            ELSE uploaded_files_to_track
                     /\ r_pc' = "sow_export"
                     /\ UNCHANGED failed_phase
                ELSE /\ Raise("prepare")
                     /\ UNCHANGED <<checklist_parts, uploaded_files_to_track>>
    /\ temp_files' = RemoveTemp(temp_files, "checklist.csv")
    /\ UNCHANGED <<mode, n_prompts, sow_file, run_no, deleted_before, phases, final_url,
                   uploaded_gemini_files, sow_parts, chat,
                   prime_idx, sent, analysis_text, copy_title, report_calls,
                   cleanup_idx, del_retries, delete_calls, backend_deletes>>

\* _prepare_sow_for_gemini up to the open(...).write of sow.pdf
SowExport ==
    /\ r_pc = "sow_export"
    /\ \E ok \in BOOLEAN :
         IF ok
         THEN /\ temp_files' = temp_files \cup {"sow.pdf"}
              /\ r_pc' = "sow_process"
              /\ UNCHANGED failed_phase
         ELSE /\ Raise("prepare")
              /\ UNCHANGED temp_files
    /\ UNCHANGED <<mode, n_prompts, sow_file, run_no, deleted_before, phases, final_url,
                   uploaded_gemini_files, uploaded_files_to_track, next_handle,
                   uploads, checklist_parts, sow_parts, chat,
                   prime_idx, sent, analysis_text, copy_title, report_calls,
                   cleanup_idx, del_retries, delete_calls, backend_deletes>>

\* _prepare_sow_for_gemini from process_file_for_gemini to its finally
SowProcess ==
    /\ r_pc = "sow_process"
    /\ \E up_ok \in BOOLEAN :
         LET r == process_file_for_gemini(mode, PDF, sow_file[1], sow_file[2],
                                          up_ok, next_handle)
         IN  /\ (mode = "vertex" => up_ok)
             /\ IF r.uploaded
                THEN /\ next_handle' = next_handle + 1
                     /\ uploads' = Append(uploads, next_handle)
                ELSE UNCHANGED <<next_handle, uploads>>
             /\ IF r.res = "ok"
                THEN /\ sow_parts' = r.parts
                     /\ uploaded_files_to_track' =
                            IF mode # "vertex"
                            THEN uploaded_files_to_track \o TrackNames(r.parts)
                            ELSE uploaded_files_to_track
                     /\ r_pc' = "start_chat"
                     /\ UNCHANGED failed_phase
                ELSE /\ Raise("prepare")
                     /\ UNCHANGED <<sow_parts, uploaded_files_to_track>>
             /\ IF "split_pdf" \in Range(r.events)
                THEN LET pdf == split_pdf_result(sow_file[1], sow_file[2])
                     IN  /\ file_size' = sow_file[1]
                         /\ total_pages' = sow_file[2]
                         /\ split_status' = pdf.status
                         /\ num_fragments' = pdf.n
                         /\ page_ranges' = pdf.ranges
                         /\ output_fragments' = pdf.fragments
                ELSE UNCHANGED splitVars
    /\ temp_files' = RemoveTemp(temp_files, "sow.pdf")
    /\ UNCHANGED <<mode, n_prompts, sow_file, run_no, deleted_before, phases, final_url,
                   uploaded_gemini_files, checklist_parts, chat,
                   prime_idx, sent, analysis_text, copy_title, report_calls,
                   cleanup_idx, del_retries, delete_calls, backend_deletes>>

\* load() returns; _prepare_gemini_session extends the ledger, initializes the
\* model parameters and calls start_chat_session; with no prompt to prime,
\* prime_chat_context returns at once and _analyze_sow begins
StartChat ==
    /\ r_pc = "start_chat"
    /\ uploaded_gemini_files' =
           LedgerExtend(uploaded_gemini_files, uploaded_files_to_track)
    /\ \E ok \in BOOLEAN :
         IF ok
         THEN /\ chat' = "session"
              /\ IF n_prompts = 0
                 THEN /\ phases' = Append(phases, "analyze")
                      /\ r_pc' = "analyze_export"
                 ELSE /\ r_pc' = "prime"
                      /\ UNCHANGED phases
              /\ UNCHANGED failed_phase
         ELSE /\ Raise("prepare")
              /\ UNCHANGED <<chat, phases>>
    /\ UNCHANGED <<mode, n_prompts, sow_file, run_no, deleted_before, final_url,
                   uploaded_files_to_track, next_handle,
                   uploads, temp_files, checklist_parts, sow_parts,
                   prime_idx, sent, analysis_text, copy_title, report_calls,
                   cleanup_idx, del_retries, delete_calls, backend_deletes>>

PrimingDone_AfterFirst(idx, n) == idx >= 1

\* for i, prompt_parts in enumerate(prompt_sequence): the loop is over when
\* the last of the n prompts has been sent
PrimingDone(idx, n) == idx = n

\* prime_chat_context: send_message for the next prompt of the sequence; after
\* the last one _prepare_gemini_session is over and _analyze_sow begins
PrimeSend ==
    /\ r_pc = "prime"
    /\ \E ok \in BOOLEAN :
         IF ok /\ chat # "None"
         THEN /\ sent' = Append(sent,
                                 <<"prime", prime_idx + 1,
                                   LoadSequence(n_prompts, checklist_parts,
                                                sow_parts)[prime_idx + 1]>>)
              /\ prime_idx' = prime_idx + 1
              /\ IF PrimingDone(prime_idx + 1, n_prompts)
                 THEN /\ phases' = Append(phases, "analyze")
                      /\ r_pc' = "analyze_export"
                 ELSE UNCHANGED <<phases, r_pc>>
              /\ UNCHANGED failed_phase
         ELSE /\ Raise("prepare")
              /\ UNCHANGED <<sent, prime_idx, phases>>
    /\ UNCHANGED <<mode, n_prompts, sow_file, run_no, deleted_before, final_url,
                   uploaded_gemini_files, uploaded_files_to_track, next_handle,
                   uploads, temp_files, checklist_parts, sow_parts, chat,
                   analysis_text, copy_title, report_calls,
                   cleanup_idx, del_retries, delete_calls, backend_deletes>>

\* _analyze_sow: get_id_from_url and drive.export_file of the SOW
AnalyzeExport ==
    /\ r_pc = "analyze_export"
    /\ \E ok \in BOOLEAN :
         IF ok
         THEN r_pc' = "analyze_send" /\ UNCHANGED failed_phase
         ELSE Raise("analyze")
    /\ UNCHANGED <<mode, n_prompts, sow_file, run_no, deleted_before, phases, final_url,
                   uploaded_gemini_files, uploaded_files_to_track, next_handle,
                   uploads, temp_files, checklist_parts, sow_parts, chat,
                   prime_idx, sent, analysis_text, copy_title, report_calls,
                   cleanup_idx, del_retries, delete_calls, backend_deletes>>

\* _analyze_sow: send_message with the SOW part; its text has a fenced block
\* ("tsv") or none ("no_tsv"); then _generate_report begins
AnalyzeSend ==
    /\ r_pc = "analyze_send"
    /\ \E out \in {"tsv", "no_tsv", "raise"} :
         IF out # "raise" /\ chat # "None"
         THEN /\ sent' = Append(sent,
                                 <<"analysis", 0,
                                   <<TextPart(0), InlinePart(PDF, 0)>> >>)
              /\ analysis_text' = out
              /\ phases' = Append(phases, "report")
              /\ r_pc' = "report_parse"
              /\ UNCHANGED failed_phase
         ELSE /\ Raise("analyze")
              /\ UNCHANGED <<sent, analysis_text, phases>>
    /\ UNCHANGED <<mode, n_prompts, sow_file, run_no, deleted_before, final_url,
                   uploaded_gemini_files, uploaded_files_to_track, next_handle,
                   uploads, temp_files, checklist_parts, sow_parts, chat,
                   prime_idx, copy_title, report_calls,
                   cleanup_idx, del_retries, delete_calls, backend_deletes>>

tsv_match_AnyText(text) == TRUE

\* re.search(r"```(?:tsv\n)?(.*)```", analysis_text, re.DOTALL)
tsv_match(text) == text = "tsv"

\* _generate_report: the search for the fenced block and the parse
ReportParse ==
    /\ r_pc = "report_parse"
    /\ IF tsv_match(analysis_text)
       THEN r_pc' = "find_folder" /\ UNCHANGED failed_phase
       ELSE Raise("report")
    /\ UNCHANGED <<mode, n_prompts, sow_file, run_no, deleted_before, phases, final_url,
                   uploaded_gemini_files, uploaded_files_to_track, next_handle,
                   uploads, temp_files, checklist_parts, sow_parts, chat,
                   prime_idx, sent, analysis_text, copy_title, report_calls,
                   cleanup_idx, del_retries, delete_calls, backend_deletes>>

\* _generate_report: drive.find_or_create_folder('Temp')
FindFolder ==
    /\ r_pc = "find_folder"
    /\ report_calls' = Append(report_calls, "find_or_create_folder")
    /\ \E ok \in BOOLEAN :
         IF ok
         THEN r_pc' = "get_metadata" /\ UNCHANGED failed_phase
         ELSE Raise("report")
    /\ UNCHANGED <<mode, n_prompts, sow_file, run_no, deleted_before, phases, final_url,
                   uploaded_gemini_files, uploaded_files_to_track, next_handle,
                   uploads, temp_files, checklist_parts, sow_parts, chat,
                   prime_idx, sent, analysis_text, copy_title,
                   cleanup_idx, del_retries, delete_calls, backend_deletes>>

\* How the decorated drive.get_file_metadata ends: with the metadata, or with
\* an error (an HttpError >= 500 once its retries are used up).
MetadataAnswers == {[cls |-> "Result", status |-> 0]} \cup Errors

MetadataCaught_Not5xx(a) == ~(a.cls = "HttpError" /\ a.status >= 500)

\* except HttpError as e: ... except Exception as e: ...; neither re-raises
MetadataCaught(a) == a.cls = "HttpError" \/ a.cls # "Result"

\* _generate_report: drive.get_file_metadata inside try/except: an error only
\* leaves the default title
GetMetadata ==
    /\ r_pc = "get_metadata"
    /\ report_calls' = Append(report_calls, "get_file_metadata")
    /\ \E a \in MetadataAnswers :
         IF a.cls = "Result"
         THEN /\ copy_title' = "sow_name"
              /\ r_pc' = "copy_file"
              /\ UNCHANGED failed_phase
         ELSE IF MetadataCaught(a)
         THEN /\ copy_title' = "default"
              /\ r_pc' = "copy_file"
              /\ UNCHANGED failed_phase
         ELSE /\ Raise("report")
              /\ UNCHANGED copy_title
    /\ UNCHANGED <<mode, n_prompts, sow_file, run_no, deleted_before, phases,
                   final_url,
                   uploaded_gemini_files, uploaded_files_to_track, next_handle,
                   uploads, temp_files, checklist_parts, sow_parts, chat,
                   prime_idx, sent, analysis_text,
                   cleanup_idx, del_retries, delete_calls, backend_deletes>>

\* _generate_report: drive.copy_file of the template
CopyFile ==
    /\ r_pc = "copy_file"
    /\ report_calls' = Append(report_calls, "copy_file")
    /\ \E ok \in BOOLEAN :
         IF ok
         THEN r_pc' = "write_data" /\ UNCHANGED failed_phase
         ELSE Raise("report")
    /\ UNCHANGED <<mode, n_prompts, sow_file, run_no, deleted_before, phases, final_url,
                   uploaded_gemini_files, uploaded_files_to_track, next_handle,
                   uploads, temp_files, checklist_parts, sow_parts, chat,
                   prime_idx, sent, analysis_text, copy_title,
                   cleanup_idx, del_retries, delete_calls, backend_deletes>>

\* _generate_report: sheets.write_data, then final_url is assigned in run()
\* and its finally clause is entered
WriteData ==
    /\ r_pc = "write_data"
    /\ report_calls' = Append(report_calls, "write_data")
    /\ \E ok \in BOOLEAN :
         IF ok
         THEN /\ final_url' = "url"
              /\ r_pc' = "cleanup_start"
              /\ UNCHANGED failed_phase
         ELSE /\ Raise("report")
              /\ UNCHANGED final_url
    /\ UNCHANGED <<mode, n_prompts, sow_file, run_no, deleted_before, phases,
                   uploaded_gemini_files, uploaded_files_to_track, next_handle,
                   uploads, temp_files, checklist_parts, sow_parts, chat,
                   prime_idx, sent, analysis_text, copy_title,
                   cleanup_idx, del_retries, delete_calls, backend_deletes>>

\* _cleanup begins: with an empty ledger it returns at once
CleanupStart ==
    /\ r_pc = "cleanup_start"
    /\ phases' = Append(phases, "cleanup")
    /\ IF uploaded_gemini_files = <<>>
       THEN r_pc' = "return" /\ UNCHANGED cleanup_idx
       ELSE r_pc' = "cleanup" /\ cleanup_idx' = 1
    /\ del_retries' = 0
    /\ UNCHANGED <<mode, n_prompts, sow_file, run_no, deleted_before, failed_phase, final_url,
                   uploaded_gemini_files, uploaded_files_to_track, next_handle,
                   uploads, temp_files, checklist_parts, sow_parts, chat,
                   prime_idx, sent, analysis_text, copy_title, report_calls,
                   delete_calls, backend_deletes>>

\* What the decorator around delete_gemini_developer_api_file does with the
\* outcome `res` of one invocation of the function.
AfterDeleteInvocation(res) ==
    IF res = "ok"
    THEN /\ del_retries' = 0
         /\ IF cleanup_idx = Len(uploaded_gemini_files)
            THEN r_pc' = "return" /\ UNCHANGED cleanup_idx
            ELSE cleanup_idx' = cleanup_idx + 1 /\ UNCHANGED r_pc
    ELSE IF res = "transient" /\ ~GiveUp(del_retries + 1, DEFAULT_MAX_RETRIES)
    THEN /\ del_retries' = del_retries + 1
         /\ UNCHANGED <<cleanup_idx, r_pc>>
    ELSE /\ r_pc' = "raised"
         /\ UNCHANGED <<cleanup_idx, del_retries>>

\* _cleanup: gemini.delete_file(file_name) for the current ledger entry, one
\* invocation of the decorated function
CleanupDelete ==
    /\ r_pc = "cleanup"
    /\ LET file_name == uploaded_gemini_files[cleanup_idx]
       IN  /\ delete_calls' = IF del_retries = 0
                              THEN Append(delete_calls, file_name)
                              ELSE delete_calls
           /\ IF mode = "vertex"
              THEN /\ UNCHANGED backend_deletes
                   /\ AfterDeleteInvocation("ok")
              ELSE \E o \in DeleteOutcomes :
                     /\ backend_deletes' =
                            Append(backend_deletes, <<file_name, o>>)
                     /\ AfterDeleteInvocation(DeleteFuncResult(o))
    /\ UNCHANGED <<mode, n_prompts, sow_file, run_no, deleted_before, phases, failed_phase,
                   final_url,
                   uploaded_gemini_files, uploaded_files_to_track, next_handle,
                   uploads, temp_files, checklist_parts, sow_parts, chat,
                   prime_idx, sent, analysis_text, copy_title, report_calls>>

\* return final_url
RunReturn ==
    /\ r_pc = "return"
    /\ r_pc' = "returned"
    /\ UNCHANGED <<mode, n_prompts, sow_file, run_no, deleted_before, phases, failed_phase,
                   final_url,
                   uploaded_gemini_files, uploaded_files_to_track, next_handle,
                   uploads, temp_files, checklist_parts, sow_parts, chat,
                   prime_idx, sent, analysis_text, copy_title, report_calls,
                   cleanup_idx, del_retries, delete_calls, backend_deletes>>

\* no orchestrator exists
IdleRun ==
    /\ mode = "none"
    /\ n_prompts = 0
    /\ sow_file = <<0, 0>>
    /\ run_no = 0
    /\ r_pc = "none"
    /\ phases = <<>>
    /\ failed_phase = "none"
    /\ final_url = "None"
    /\ uploaded_gemini_files = <<>>
    /\ uploaded_files_to_track = <<>>
    /\ next_handle = 1
    /\ uploads = <<>>
    /\ temp_files = {}
    /\ checklist_parts = <<>>
    /\ sow_parts = <<>>
    /\ chat = "None"
    /\ prime_idx = 0
    /\ sent = <<>>
    /\ analysis_text = "none"
    /\ copy_title = "none"
    /\ report_calls = <<>>
    /\ cleanup_idx = 0
    /\ del_retries = 0
    /\ delete_calls = <<>>
    /\ deleted_before = <<>>
    /\ backend_deletes = <<>>

(***************************************************************************)
(* GeminiOrchestrator: its public methods, called in any order             *)
(***************************************************************************)
NoMime == "None"

\* The files of the calls, <<byte size, pages>>.
GeminiFiles == {<<5 * MB, 3>>, <<15 * MB, 7>>, <<15 * MB, 0>>, <<31 * MB, 3>>}

upload_file_GuessFirst(m, given, guessed, size, pages, up_ok, h) ==
    IF guessed = NoMime
    THEN [res |-> "UnknownMediaType", parts |-> <<>>, events |-> <<>>,
          uploaded |-> FALSE]
    ELSE process_file_for_gemini(m, guessed, size, pages, up_ok, h)

\* upload_file(file_path, mime_type=None): `given` is the argument, `guessed`
\* what mimetypes.guess_type(file_path) answers for the path
upload_file(m, given, guessed, size, pages, up_ok, h) ==
    LET mime_type == IF given = NoMime THEN guessed ELSE given
    IN  IF mime_type = NoMime
        THEN [res |-> "UnknownMediaType", parts |-> <<>>, events |-> <<>>,
              uploaded |-> FALSE]
        ELSE process_file_for_gemini(m, mime_type, size, pages, up_ok, h)

send_message_NoSessionCheck(chatv, k, out) ==
    IF GiveUp(k, DEFAULT_MAX_RETRIES)
    THEN [res |-> "Transient", sends |-> k, sleeps |-> k - 1]
    ELSE [res |-> IF out = "ok" THEN "ok" ELSE "Permanent",
          sends |-> k + 1, sleeps |-> k]

\* One call of send_message under @retry_on_gemini_error(): with no session
\* the body raises RuntimeError before chat.send_message; otherwise the first
\* k invocations fail with a transient error and, unless that uses up the
\* retries, the next one ends the call with `out`.  sends counts the calls of
\* self.chat.send_message, sleeps those of time.sleep.
send_message(chatv, k, out) ==
    IF chatv = "None"
    THEN [res |-> "RuntimeError", sends |-> 0, sleeps |-> 0]
    ELSE IF GiveUp(k, DEFAULT_MAX_RETRIES)
    THEN [res |-> "Transient", sends |-> k, sleeps |-> k - 1]
    ELSE [res |-> IF out = "ok" THEN "ok" ELSE "Permanent",
          sends |-> k + 1, sleeps |-> k]

\* the record of a method call
Call(op, res) ==
    [op |-> op, res |-> res, sends |-> 0, sleeps |-> 0, created |-> FALSE,
     given |-> NoMime, guessed |-> NoMime, file |-> <<0, 0>>, up_ok |-> FALSE,
     handle |-> 0, parts |-> <<>>, events |-> <<>>]

\* if not self.model_name: raise RuntimeError(...)
start_chat_session_refuses(name) == name \in {"None", ""}

\* initialize_model_parameters(model_name, ...)
InitializeModelParameters ==
    /\ g_pc = "idle" /\ g_ops < MaxOps
    /\ \E name \in {"", "model"} : g_model_name' = name
    /\ g_ops' = g_ops + 1
    /\ g_last' = Call("initialize_model_parameters", "ok")
    /\ UNCHANGED <<g_mode, g_chat, g_pc, g_left, g_sends, g_creates, g_uploads>>

\* start_chat_session()
StartChatSession ==
    /\ g_pc = "idle" /\ g_ops < MaxOps
    /\ g_ops' = g_ops + 1
    /\ IF start_chat_session_refuses(g_model_name)
       THEN /\ g_last' = Call("start_chat_session", "RuntimeError")
            /\ UNCHANGED <<g_chat, g_creates>>
       ELSE /\ g_creates' = g_creates + 1
            /\ \E ok \in BOOLEAN :
                 IF ok
                 THEN /\ g_chat' = "session"
                      /\ g_last' = [Call("start_chat_session", "ok")
                                      EXCEPT !.created = TRUE]
                 ELSE /\ g_last' = Call("start_chat_session", "Permanent")
                      /\ UNCHANGED g_chat
    /\ UNCHANGED <<g_mode, g_model_name, g_pc, g_left, g_sends, g_uploads>>

\* send_message(prompt_parts)
SendMessage ==
    /\ g_pc = "idle" /\ g_ops < MaxOps
    /\ g_ops' = g_ops + 1
    /\ \E k \in 0..DEFAULT_MAX_RETRIES : \E out \in {"ok", "permanent"} :
         LET r == send_message(g_chat, k, out)
         IN  /\ g_sends' = g_sends + r.sends
             /\ g_last' = [Call("send_message", r.res)
                             EXCEPT !.sends = r.sends, !.sleeps = r.sleeps]
    /\ UNCHANGED <<g_mode, g_model_name, g_chat, g_pc, g_left, g_creates,
                   g_uploads>>

\* prime_chat_context(prompt_sequence) up to its loop: the session check, then
\* the check for an empty sequence
PrimeChatContext ==
    /\ g_pc = "idle" /\ g_ops < MaxOps
    /\ g_ops' = g_ops + 1
    /\ \E n \in 0..MaxPrompts :
         IF g_chat = "None"
         THEN /\ g_last' = Call("prime_chat_context", "RuntimeError")
              /\ UNCHANGED <<g_pc, g_left>>
         ELSE IF n = 0
         THEN /\ g_last' = Call("prime_chat_context", "ok")
              /\ UNCHANGED <<g_pc, g_left>>
         ELSE /\ g_last' = Call("prime_chat_context", "running")
              /\ g_pc' = "priming"
              /\ g_left' = n
    /\ UNCHANGED <<g_mode, g_model_name, g_chat, g_sends, g_creates, g_uploads>>

\* one turn of prime_chat_context's loop: self.send_message(prompt_parts)
PrimeStep ==
    /\ g_pc = "priming"
    /\ \E k \in 0..DEFAULT_MAX_RETRIES : \E out \in {"ok", "permanent"} :
         LET r == send_message(g_chat, k, out)
         IN  /\ g_sends' = g_sends + r.sends
             /\ IF r.res = "ok" /\ g_left > 1
                THEN /\ g_left' = g_left - 1
                     /\ g_last' = [g_last EXCEPT
                                     !.sends = g_last.sends + r.sends,
                                     !.sleeps = g_last.sleeps + r.sleeps]
                     /\ UNCHANGED g_pc
                ELSE /\ g_left' = 0
                     /\ g_pc' = "idle"
                     /\ g_last' = [g_last EXCEPT
                                     !.res = r.res,
                                     !.sends = g_last.sends + r.sends,
                                     !.sleeps = g_last.sleeps + r.sleeps]
    /\ UNCHANGED <<g_mode, g_model_name, g_chat, g_ops, g_creates, g_uploads>>

\* upload_file(file_path, mime_type): up_ok is whether the upload, if one is
\* made, succeeds within the retries of process_file_for_gemini
UploadFile ==
    /\ g_pc = "idle" /\ g_ops < MaxOps
    /\ g_ops' = g_ops + 1
    /\ \E given \in {NoMime, PDF, CSV} : \E guessed \in {NoMime, PDF, CSV} :
       \E f \in GeminiFiles : \E up_ok \in BOOLEAN :
         LET r == upload_file(g_mode, given, guessed, f[1], f[2], up_ok,
                              g_uploads + 1)
         IN  /\ g_uploads' = IF r.uploaded THEN g_uploads + 1 ELSE g_uploads
             /\ g_last' = [Call("upload_file", r.res)
                             EXCEPT !.given = given, !.guessed = guessed,
                                    !.file = f, !.up_ok = up_ok,
                                    !.handle = g_uploads + 1,
                                    !.parts = r.parts, !.events = r.events]
    /\ UNCHANGED <<g_mode, g_model_name, g_chat, g_pc, g_left, g_sends,
                   g_creates>>

\* process_file_for_gemini(file_path, mime_type) called directly
ProcessFile ==
    /\ g_pc = "idle" /\ g_ops < MaxOps
    /\ g_ops' = g_ops + 1
    /\ \E mime \in {PDF, CSV} : \E f \in GeminiFiles : \E up_ok \in BOOLEAN :
         LET r == process_file_for_gemini(g_mode, mime, f[1], f[2], up_ok,
                                          g_uploads + 1)
         IN  /\ g_uploads' = IF r.uploaded THEN g_uploads + 1 ELSE g_uploads
             /\ g_last' = [Call("process_file_for_gemini", r.res)
                             EXCEPT !.given = mime, !.file = f,
                                    !.up_ok = up_ok, !.handle = g_uploads + 1,
                                    !.parts = r.parts, !.events = r.events]
    /\ UNCHANGED <<g_mode, g_model_name, g_chat, g_pc, g_left, g_sends,
                   g_creates>>

\* delete_file(name): skipped in Vertex mode, otherwise client.files.delete
\* with every error swallowed
DeleteFile ==
    /\ g_pc = "idle" /\ g_ops < MaxOps
    /\ g_ops' = g_ops + 1
    /\ \E o \in DeleteOutcomes :
         g_last' = Call("delete_file",
                        IF g_mode = "vertex" THEN "skipped"
                        ELSE DeleteFuncResult(o))
    /\ UNCHANGED <<g_mode, g_model_name, g_chat, g_pc, g_left, g_sends,
                   g_creates, g_uploads>>

\* get_file_metadata(name): refused in Vertex mode, otherwise client.files.get
\* create_file_part_from_bytes(bytes, mime): one inline part
OtherCall ==
    /\ g_pc = "idle" /\ g_ops < MaxOps
    /\ g_ops' = g_ops + 1
    /\ \/ \E ok \in BOOLEAN :
            g_last' = Call("get_file_metadata",
                           IF g_mode = "vertex" THEN "RuntimeError"
                           ELSE IF ok THEN "ok" ELSE "Permanent")
       \/ \E mime \in {PDF, CSV} :
            g_last' = [Call("create_file_part_from_bytes", "ok")
                         EXCEPT !.parts = <<InlinePart(mime, 0)>>]
    /\ UNCHANGED <<g_mode, g_model_name, g_chat, g_pc, g_left, g_sends,
                   g_creates, g_uploads>>

\* no GeminiOrchestrator exists
IdleGemini ==
    /\ g_mode = "none"
    /\ g_model_name = "None"
    /\ g_chat = "None"
    /\ g_pc = "none"
    /\ g_left = 0
    /\ g_ops = 0
    /\ g_sends = 0
    /\ g_creates = 0
    /\ g_uploads = 0
    /\ g_last = Call("none", "none")

(***************************************************************************)
(* GoogleDriveHelper.download_file_content and export_file                 *)
(***************************************************************************)
DriveAnswers == {[cls |-> "Result", status |-> 0]} \cup Errors

\* The method is entered: its wrapper sets retries = 0 and tests its loop, the
\* body builds the request and calls _download_media, whose own wrapper sets
\* retries = 0 and tests its loop.
DriveCall ==
    /\ d_pc = "start"
    /\ d_outer' = 0
    /\ d_inner' = 0
    /\ d_pc' = IF LoopCond("http", 0, DEFAULT_MAX_RETRIES)
               THEN "download" ELSE "returned"
    /\ UNCHANGED <<d_op, d_downloads, d_sleeps, d_result>>

\* What the wrapper of the method does with an error that left the wrapper of
\* _download_media.
OuterExcept(e) ==
    IF HttpTransient(e)
    THEN /\ d_outer' = d_outer + 1
         /\ d_pc' = IF GiveUp(d_outer + 1, DEFAULT_MAX_RETRIES)
                    THEN "raised" ELSE "outer_sleep"
    ELSE /\ d_pc' = "raised"
         /\ UNCHANGED d_outer

\* One execution of the body of _download_media (the chunks of one download)
\* and what the two wrappers do with its outcome.
DownloadAttempt ==
    /\ d_pc = "download"
    /\ d_downloads' = d_downloads + 1
    /\ \E a \in DriveAnswers :
         /\ d_result' = a
         /\ IF a.cls = "Result"
            THEN /\ d_pc' = "returned"
                 /\ UNCHANGED <<d_outer, d_inner>>
            ELSE IF HttpTransient(a)
            THEN /\ d_inner' = d_inner + 1
                 /\ IF GiveUp(d_inner + 1, DEFAULT_MAX_RETRIES)
                    THEN OuterExcept(a)
                    ELSE /\ d_pc' = "inner_sleep"
                         /\ UNCHANGED d_outer
            ELSE /\ OuterExcept(a)
                 /\ UNCHANGED d_inner
    /\ UNCHANGED <<d_op, d_sleeps>>

\* time.sleep of the wrapper of _download_media, then its body again
InnerSleep ==
    /\ d_pc = "inner_sleep"
    /\ d_sleeps' = d_sleeps + 1
    /\ d_pc' = "download"
    /\ UNCHANGED <<d_op, d_outer, d_inner, d_downloads, d_result>>

\* time.sleep of the wrapper of the method, then the method's body again:
\* a new request and a new call of _download_media, its retries at 0
OuterSleep ==
    /\ d_pc = "outer_sleep"
    /\ d_sleeps' = d_sleeps + 1
    /\ d_inner' = 0
    /\ d_pc' = IF LoopCond("http", d_outer, DEFAULT_MAX_RETRIES)
               THEN "download" ELSE "returned"
    /\ UNCHANGED <<d_op, d_outer, d_downloads, d_result>>

\* no Drive call is in progress
IdleDrive ==
    /\ d_op = "none"
    /\ d_outer = 0
    /\ d_inner = 0
    /\ d_pc = "none"
    /\ d_downloads = 0
    /\ d_sleeps = 0
    /\ d_result = NoValue

(***************************************************************************)
(* SpecSplit: a file on disk and one call of the splitter                  *)
(***************************************************************************)
InitSplit ==
    /\ file_size \in Sizes
    /\ total_pages \in 0..MaxPages
    /\ split_status = "idle"
    /\ num_fragments = 0
    /\ page_ranges = <<>>
    /\ output_fragments = <<>>
    /\ IdleRetry
    /\ IdleRun
    /\ IdleTransfer
    /\ IdleGemini
    /\ IdleDrive
    /\ IdlePair

NextSplit ==
    \/ split_pdf /\ UNCHANGED <<retryVars, runVars, transferVars, geminiVars, driveVars, pairVars>>
    \/ get_pdf_page_ranges_call /\ UNCHANGED <<retryVars, runVars, transferVars, geminiVars, driveVars, pairVars>>

SpecSplit == InitSplit /\ [][NextSplit]_vars

(***************************************************************************)
(* SpecRetry: one decorated call, for every max_retries from -1 up         *)
(***************************************************************************)
InitRetry ==
    /\ w_kind \in {"http", "gemini"}
    /\ max_retries \in -1..MaxRetries
    /\ backoff_factor \in 1..MaxBackoff
    /\ retries = 0
    /\ w_pc = "start"
    /\ invocations = <<>>
    /\ sleeps = <<>>
    /\ w_value = <<NoValue, 0>>
    /\ last_sleep = 0
    /\ IdleSplit
    /\ IdleRun
    /\ IdleTransfer
    /\ IdleGemini
    /\ IdleDrive
    /\ IdlePair

NextRetry ==
    \/ WrapperEnter /\ UNCHANGED <<splitVars, runVars, transferVars, geminiVars, driveVars, pairVars>>
    \/ InvokeReturns /\ UNCHANGED <<splitVars, runVars, transferVars, geminiVars, driveVars, pairVars>>
    \/ InvokeRaisesTransient /\ UNCHANGED <<splitVars, runVars, transferVars, geminiVars, driveVars, pairVars>>
    \/ InvokeRaisesOther /\ UNCHANGED <<splitVars, runVars, transferVars, geminiVars, driveVars, pairVars>>
    \/ Sleep /\ UNCHANGED <<splitVars, runVars, transferVars, geminiVars, driveVars, pairVars>>

SpecRetry == InitRetry /\ [][NextRetry]_vars

\* The wrapper runs in the calling thread, which is not suspended for ever:
\* whenever it can take a step it eventually takes one.
SpecRetryFair == InitRetry /\ [][NextRetry]_vars /\ WF_vars(NextRetry)

(***************************************************************************)
(* SpecRun: one SowReviewOrchestrator, run() called up to MaxRuns times    *)
(***************************************************************************)
InitRun ==
    /\ mode \in {"developer", "vertex"}
    /\ n_prompts \in 0..MaxPrompts
    /\ sow_file \in RunFiles
    /\ run_no = 0
    /\ r_pc = "idle"
    /\ phases = <<>>
    /\ failed_phase = "none"
    /\ final_url = "None"
    /\ uploaded_gemini_files = <<>>
    /\ uploaded_files_to_track = <<>>
    /\ next_handle = 1
    /\ uploads = <<>>
    /\ temp_files = {}
    /\ checklist_parts = <<>>
    /\ sow_parts = <<>>
    /\ chat = "None"
    /\ prime_idx = 0
    /\ sent = <<>>
    /\ analysis_text = "none"
    /\ copy_title = "none"
    /\ report_calls = <<>>
    /\ cleanup_idx = 0
    /\ del_retries = 0
    /\ delete_calls = <<>>
    /\ deleted_before = <<>>
    /\ backend_deletes = <<>>
    /\ IdleSplit
    /\ IdleRetry
    /\ IdleTransfer
    /\ IdleGemini
    /\ IdleDrive
    /\ IdlePair

NextRun ==
    \/ RunStart /\ UNCHANGED <<splitVars, retryVars, transferVars, geminiVars, driveVars, pairVars>>
    \/ LoadPrompts /\ UNCHANGED <<splitVars, retryVars, transferVars, geminiVars, driveVars, pairVars>>
    \/ ChecklistExport /\ UNCHANGED <<splitVars, retryVars, transferVars, geminiVars, driveVars, pairVars>>
    \/ ChecklistProcess /\ UNCHANGED <<splitVars, retryVars, transferVars, geminiVars, driveVars, pairVars>>
    \/ SowExport /\ UNCHANGED <<splitVars, retryVars, transferVars, geminiVars, driveVars, pairVars>>
    \/ SowProcess /\ UNCHANGED <<retryVars, transferVars, geminiVars, driveVars, pairVars>>
    \/ StartChat /\ UNCHANGED <<splitVars, retryVars, transferVars, geminiVars, driveVars, pairVars>>
    \/ PrimeSend /\ UNCHANGED <<splitVars, retryVars, transferVars, geminiVars, driveVars, pairVars>>
    \/ AnalyzeExport /\ UNCHANGED <<splitVars, retryVars, transferVars, geminiVars, driveVars, pairVars>>
    \/ AnalyzeSend /\ UNCHANGED <<splitVars, retryVars, transferVars, geminiVars, driveVars, pairVars>>
    \/ ReportParse /\ UNCHANGED <<splitVars, retryVars, transferVars, geminiVars, driveVars, pairVars>>
    \/ FindFolder /\ UNCHANGED <<splitVars, retryVars, transferVars, geminiVars, driveVars, pairVars>>
    \/ GetMetadata /\ UNCHANGED <<splitVars, retryVars, transferVars, geminiVars, driveVars, pairVars>>
    \/ CopyFile /\ UNCHANGED <<splitVars, retryVars, transferVars, geminiVars, driveVars, pairVars>>
    \/ WriteData /\ UNCHANGED <<splitVars, retryVars, transferVars, geminiVars, driveVars, pairVars>>
    \/ CleanupStart /\ UNCHANGED <<splitVars, retryVars, transferVars, geminiVars, driveVars, pairVars>>
    \/ CleanupDelete /\ UNCHANGED <<splitVars, retryVars, transferVars, geminiVars, driveVars, pairVars>>
    \/ RunReturn /\ UNCHANGED <<splitVars, retryVars, transferVars, geminiVars, driveVars, pairVars>>

SpecRun == InitRun /\ [][NextRun]_vars

(***************************************************************************)
(* SpecTransfer: one GeminiOrchestrator with its PdfSplitterHelper; one    *)
(* decorated call of process_file_for_gemini on one file                   *)
(***************************************************************************)
\* The file sizes of the calls: both sides of every threshold and one size
\* in between.
TransferSizes ==
    {t * MB + d : t \in {MEDIUM_FILE_THRESHOLD_MB, LARGE_FILE_THRESHOLD_MB,
                         MAX_TOTAL_SIZE_MB},
                  d \in {-1, 0, 1}}
    \cup {5 * MB, 15 * MB, 25 * MB, MaxSizeMB * MB}

TransferPageCounts == {0, 1, 2, 3, 7, MaxPages}

InitTransfer ==
    /\ t_mode \in {"developer", "vertex"}
    /\ t_mime \in {PDF, CSV}
    /\ file_size \in TransferSizes
    /\ total_pages \in TransferPageCounts
    /\ split_status = "idle"
    /\ num_fragments = 0
    /\ page_ranges = <<>>
    /\ output_fragments = <<>>
    /\ w_kind = "gemini"
    /\ max_retries = DEFAULT_MAX_RETRIES
    /\ backoff_factor = 1
    /\ retries = 0
    /\ w_pc = "start"
    /\ invocations = <<>>
    /\ sleeps = <<>>
    /\ w_value = <<NoValue, 0>>
    /\ last_sleep = 0
    /\ t_events = <<>>
    /\ t_uploads = <<>>
    /\ t_parts = <<>>
    /\ IdleRun
    /\ IdleGemini
    /\ IdleDrive
    /\ IdlePair

NextTransfer ==
    \/ WrapperEnter /\ UNCHANGED <<splitVars, runVars, transferVars, geminiVars, driveVars, pairVars>>
    \/ ProcessInvoke /\ UNCHANGED <<runVars, geminiVars, driveVars, pairVars>>
    \/ Sleep /\ UNCHANGED <<splitVars, runVars, transferVars, geminiVars, driveVars, pairVars>>
    \/ get_pdf_page_ranges_call /\ UNCHANGED <<retryVars, runVars, transferVars, geminiVars, driveVars, pairVars>>

SpecTransfer == InitTransfer /\ [][NextTransfer]_vars

(***************************************************************************)
(* SpecGemini: one GeminiOrchestrator, up to MaxOps method calls           *)
(***************************************************************************)
InitGemini ==
    /\ g_mode \in {"developer", "vertex"}
    /\ g_model_name = "None"
    /\ g_chat = "None"
    /\ g_pc = "idle"
    /\ g_left = 0
    /\ g_ops = 0
    /\ g_sends = 0
    /\ g_creates = 0
    /\ g_uploads = 0
    /\ g_last = Call("__init__", "ok")
    /\ IdleSplit
    /\ IdleRetry
    /\ IdleRun
    /\ IdleTransfer
    /\ IdleDrive
    /\ IdlePair

NextGemini ==
    \/ InitializeModelParameters /\ UNCHANGED <<splitVars, retryVars, runVars, transferVars, driveVars, pairVars>>
    \/ StartChatSession /\ UNCHANGED <<splitVars, retryVars, runVars, transferVars, driveVars, pairVars>>
    \/ SendMessage /\ UNCHANGED <<splitVars, retryVars, runVars, transferVars, driveVars, pairVars>>
    \/ PrimeChatContext /\ UNCHANGED <<splitVars, retryVars, runVars, transferVars, driveVars, pairVars>>
    \/ PrimeStep /\ UNCHANGED <<splitVars, retryVars, runVars, transferVars, driveVars, pairVars>>
    \/ UploadFile /\ UNCHANGED <<splitVars, retryVars, runVars, transferVars, driveVars, pairVars>>
    \/ ProcessFile /\ UNCHANGED <<splitVars, retryVars, runVars, transferVars, driveVars, pairVars>>
    \/ DeleteFile /\ UNCHANGED <<splitVars, retryVars, runVars, transferVars, driveVars, pairVars>>
    \/ OtherCall /\ UNCHANGED <<splitVars, retryVars, runVars, transferVars, driveVars, pairVars>>

SpecGemini == InitGemini /\ [][NextGemini]_vars

(***************************************************************************)
(* SpecDrive: one call of download_file_content or export_file             *)
(***************************************************************************)
InitDrive ==
    /\ d_op \in {"download_file_content", "export_file"}
    /\ d_outer = 0
    /\ d_inner = 0
    /\ d_pc = "start"
    /\ d_downloads = 0
    /\ d_sleeps = 0
    /\ d_result = NoValue
    /\ IdleSplit
    /\ IdleRetry
    /\ IdleRun
    /\ IdleTransfer
    /\ IdleGemini
    /\ IdlePair

NextDrive ==
    \/ DriveCall /\ UNCHANGED <<splitVars, retryVars, runVars, transferVars, geminiVars, pairVars>>
    \/ DownloadAttempt /\ UNCHANGED <<splitVars, retryVars, runVars, transferVars, geminiVars, pairVars>>
    \/ InnerSleep /\ UNCHANGED <<splitVars, retryVars, runVars, transferVars, geminiVars, pairVars>>
    \/ OuterSleep /\ UNCHANGED <<splitVars, retryVars, runVars, transferVars, geminiVars, pairVars>>

SpecDrive == InitDrive /\ [][NextDrive]_vars

(***************************************************************************)
(* SpecPair: the same call through each of the two retry wrappers          *)
(***************************************************************************)
InitPair ==
    /\ p_max_retries \in -1..MaxRetries
    /\ p_backoff_factor \in 1..MaxBackoff
    /\ p_outcomes = <<>>
    /\ p_http = WrapperCalled
    /\ p_gemini = WrapperCalled
    /\ IdleSplit
    /\ IdleRetry
    /\ IdleRun
    /\ IdleTransfer
    /\ IdleGemini
    /\ IdleDrive

NextPair ==
    \/ PairEnter /\ UNCHANGED <<splitVars, retryVars, runVars, transferVars, geminiVars, driveVars>>
    \/ PairInvoke /\ UNCHANGED <<splitVars, retryVars, runVars, transferVars, geminiVars, driveVars>>
    \/ PairSleep /\ UNCHANGED <<splitVars, retryVars, runVars, transferVars, geminiVars, driveVars>>

SpecPair == InitPair /\ [][NextPair]_vars

(***************************************************************************)
(* Properties of the splitter (checked under SpecSplit)                    *)
(***************************************************************************)
PagesOf(r) == {p \in 0..MaxPages + 1 : r[1] <= p /\ p < r[2]}

SplitRan == split_status \in {"ok", "ranges"}

\* C1: for total_pages >= 1 and num_fragments in {1,2,3} the page ranges
\* computed by _get_pdf_page_ranges (and used by split_pdf) are ascending,
\* pairwise disjoint, contiguous (the first starts at 0, each next one starts
\* where the previous one ends) and their union is exactly [0, total_pages).
C1_RangesPartitionPages ==
    (SplitRan /\ total_pages >= 1 /\ num_fragments \in {1, 2, 3}) =>
        /\ Len(page_ranges) = num_fragments
        /\ page_ranges[1][1] = 0
        /\ \A i \in 1..Len(page_ranges) : page_ranges[i][1] <= page_ranges[i][2]
        /\ \A i \in 1..(Len(page_ranges) - 1) :
               page_ranges[i][2] = page_ranges[i + 1][1]
        /\ \A i, j \in 1..Len(page_ranges) :
               i # j => PagesOf(page_ranges[i]) \cap PagesOf(page_ranges[j]) = {}
        /\ UNION {PagesOf(page_ranges[i]) : i \in 1..Len(page_ranges)}
               = {p \in 0..MaxPages + 1 : p < total_pages}
        /\ (split_status = "ok" =>
               /\ Len(output_fragments) = Len(page_ranges)
               /\ \A i \in 1..Len(output_fragments) :
                      Range(output_fragments[i].pages) = PagesOf(page_ranges[i]))

\* a split into three where the page count is not a multiple of three
C1_Witness ==
    /\ split_status = "ok"
    /\ num_fragments = 3
    /\ total_pages = 7
    /\ page_ranges = <<(<<0, 2>>), (<<2, 4>>), (<<4, 7>>)>>

\* C9: for a PDF with at least one page the number of fragments split_pdf
\* returns is decided by the byte size alone: 1 below 10 MB, 2 from 10 MB to
\* below 20 MB, 3 from 20 MB to 30 MB inclusive; the call fails with the
\* size-exceeded error exactly when the size is above 30 MB.
C9_FragmentCountBySize ==
    (split_status \in {"ok", "SizeExceeded"}) =>
        /\ (split_status = "SizeExceeded" <=> file_size > 31457280)
        /\ (total_pages >= 1 /\ file_size <= 31457280 =>
               Len(output_fragments) =
                   IF file_size < 10485760 THEN 1
                   ELSE IF file_size < 20971520 THEN 2
                   ELSE 3)

\* a file of exactly 30 MB is accepted and split into three
C9_Witness ==
    /\ split_status = "ok"
    /\ file_size = 31457280
    /\ total_pages >= 1
    /\ Len(output_fragments) = 3

\* C10: for total_pages >= 1 every fragment split_pdf produces has a
\* non-empty page range (start < end), also when total_pages is smaller than
\* the number of fragments.
C10_EveryFragmentNonEmpty ==
    (split_status = "ok" /\ total_pages >= 1) =>
        \A i \in 1..Len(output_fragments) :
            /\ output_fragments[i].start < output_fragments[i].end
            /\ output_fragments[i].pages # <<>>

(***************************************************************************)
(* Properties of the retry decorators (checked under SpecRetry)            *)
(***************************************************************************)
\* The classification the claims give, written out: 5xx for the HTTP wrapper,
\* the five named classes for the Gemini wrapper.
ClaimedTransient(kind, e) ==
    IF kind = "http"
    THEN e.cls = "HttpError" /\ e.status \in {500, 503}
    ELSE e.cls \in {"ResourceExhausted", "InternalServerError",
                    "ServiceUnavailable", "DeadlineExceeded", "Aborted"}

FailedTransient(i) ==
    invocations[i].res = "err" /\ ClaimedTransient(w_kind, invocations[i].err)

FailedOther(i) ==
    invocations[i].res = "err" /\ ~ClaimedTransient(w_kind, invocations[i].err)

WrapperDone == w_pc \in {"returned", "raised"}

\* C2: with max_retries = N >= 1, an operation that fails with a transient
\* error on every invocation is invoked exactly N times, the wrapper sleeps
\* exactly N-1 times and then re-raises the error of the N-th invocation,
\* unmodified; before the N-th failure the wrapper has not given up.
C2_ExhaustionReraisesLast ==
    (max_retries >= 1 /\ \A i \in 1..Len(invocations) : FailedTransient(i)) =>
        /\ Len(invocations) <= max_retries
        /\ (Len(invocations) < max_retries => ~WrapperDone)
        /\ (WrapperDone =>
               /\ w_pc = "raised"
               /\ Len(invocations) = max_retries
               /\ Len(sleeps) = max_retries - 1
               /\ w_value = <<invocations[max_retries].err, max_retries>>)

\* five 503 answers exhaust the HTTP wrapper's default five attempts
C2_Witness ==
    /\ w_kind = "http"
    /\ max_retries = 5
    /\ w_pc = "raised"
    /\ Len(invocations) = 5
    /\ \A i \in 1..5 : invocations[i].err = [cls |-> "HttpError", status |-> 503]
    /\ Len(sleeps) = 4

\* C3: with max_retries = N >= 1, whenever the wrapper returns, the
\* invocation that succeeded is the last one, number k+1 with k < N, the k
\* invocations before it all failed with a transient error, exactly k sleeps
\* were made and the value returned is that success result; and the wrapper
\* is about to invoke the operation only with as many sleeps made as
\* failures seen.
C3_SuccessAfterKFailures ==
    (max_retries >= 1) =>
        /\ (w_pc = "try" =>
               /\ Len(sleeps) = Len(invocations)
               /\ Len(invocations) < max_retries)
        /\ (w_pc = "returned" =>
               LET k == Len(invocations) - 1
               IN  /\ k >= 0
                   /\ k < max_retries
                   /\ invocations[k + 1].res = "ok"
                   /\ \A i \in 1..k : FailedTransient(i)
                   /\ Len(sleeps) = k
                   /\ w_value = <<[cls |-> "Result", status |-> 0], k + 1>>)

\* the default five attempts: four rate-limit failures, then the success
C3_Witness ==
    /\ w_kind = "gemini"
    /\ max_retries = 5
    /\ w_pc = "returned"
    /\ Len(invocations) = 5
    /\ \A i \in 1..4 : invocations[i].err.cls = "ResourceExhausted"
    /\ invocations[5].res = "ok"
    /\ Len(sleeps) = 4

\* C4: an invocation that raises a non-transient error is the last one: the
\* wrapper has raised that very error, no sleep follows it (the sleeps are
\* those of the failures before it) and, on the first invocation, no sleep
\* was made at all.
C4_NonTransientPropagates ==
    \A i \in 1..Len(invocations) :
        FailedOther(i) =>
            /\ i = Len(invocations)
            /\ w_pc = "raised"
            /\ w_value = <<invocations[i].err, i>>
            /\ Len(sleeps) = i - 1
            /\ (i = 1 => sleeps = <<>>)

\* a 404 on the first attempt of the HTTP wrapper
C4_Witness ==
    /\ w_kind = "http"
    /\ max_retries = 5
    /\ w_pc = "raised"
    /\ Len(invocations) = 1
    /\ invocations[1].err = [cls |-> "HttpError", status |-> 404]
    /\ sleeps = <<>>

(***************************************************************************)
(* Properties of the run (checked under SpecRun)                           *)
(***************************************************************************)
Count(seq, x) == Cardinality({i \in DOMAIN seq : seq[i] = x})

Last(seq) == seq[Len(seq)]

IsPrefix(a, b) == Len(a) <= Len(b) /\ SubSeq(b, 1, Len(a)) = a

\* the names client.files.delete was called with in this run, in order
DeletedNames == [i \in DOMAIN backend_deletes |-> backend_deletes[i][1]]

\* C5: whichever phase raises, or none, the cleanup phase executes exactly
\* once, after the last phase that started and before run() returns, and it
\* passes over the ledger as accumulated up to then.
C5_CleanupExactlyOnce ==
    /\ Count(phases, "cleanup") <= 1
    /\ (Count(phases, "cleanup") = 1 =>
           /\ Last(phases) = "cleanup"
           /\ r_pc \in {"cleanup", "return", "returned"}
           /\ IsPrefix(delete_calls, uploaded_gemini_files))
    /\ (r_pc \in {"return", "returned"} =>
           /\ Count(phases, "cleanup") = 1
           /\ IsPrefix(SubSeq(phases, 1, Len(phases) - 1),
                       <<"prepare", "analyze", "report">>)
           /\ (failed_phase # "none" =>
                  phases[Len(phases) - 1] = failed_phase)
           /\ delete_calls = uploaded_gemini_files)

\* the analysis raised after a preparation that uploaded two files
C5_Witness ==
    /\ r_pc = "returned"
    /\ failed_phase = "analyze"
    /\ phases = <<"prepare", "analyze", "cleanup">>
    /\ Len(uploaded_gemini_files) = 2
    /\ delete_calls = uploaded_gemini_files

\* C6: in DeveloperMode every remote resource a successful upload created
\* during a run has had a deletion attempted when run() returns, also when a
\* later step failed.
C6_EveryUploadGetsDeleteAttempt ==
    (r_pc = "returned" /\ mode = "developer") =>
        \A i \in DOMAIN uploads :
            \E j \in DOMAIN backend_deletes :
                backend_deletes[j][1] = uploads[i]

C7_DeletesFollowLedger ==
    /\ (backend_deletes # <<>> =>
           /\ phases # <<>>
           /\ Last(phases) = "cleanup")
    /\ (r_pc = "cleanup" =>
           DeletedNames = SubSeq(uploaded_gemini_files, 1, cleanup_idx - 1))
    /\ (r_pc \in {"return", "returned"} /\ mode = "developer" =>
           DeletedNames = uploaded_gemini_files)

\* C7: the ledger only grows (every step leaves the old ledger as a prefix of
\* the new one), no backend delete is made before the cleanup phase, and in
\* the cleanup phase the backend delete is invoked exactly once per ledger
\* entry, in ledger order, whatever each delete answers.
C7_LedgerGrowsDrainedOnce ==
    /\ [][IsPrefix(uploaded_gemini_files, uploaded_gemini_files')]_vars
    /\ []C7_DeletesFollowLedger

\* two handles, one delete answering a transient and one a permanent error
C7_Witness ==
    /\ r_pc = "returned"
    /\ run_no = 1
    /\ Len(uploaded_gemini_files) = 2
    /\ Len(backend_deletes) = 2
    /\ backend_deletes[1][2] = "transient"
    /\ backend_deletes[2][2] = "permanent"

\* C8: cleanup is best-effort: whichever deletes fail, a delete is attempted
\* for every handle of the ledger, cleanup raises nothing (run() never ends
\* by an exception), and run() returns the report URL exactly when no phase
\* raised, None otherwise.
C8_CleanupBestEffort ==
    /\ r_pc # "raised"
    /\ (r_pc \in {"return", "returned"} =>
           /\ Len(delete_calls) = Len(uploaded_gemini_files)
           /\ (mode = "developer" =>
                  Len(backend_deletes) = Len(uploaded_gemini_files)))
    /\ (r_pc = "returned" =>
           final_url = IF failed_phase = "none" THEN "url" ELSE "None")

\* more than three handles, the second delete failing, the report delivered
C8_Witness ==
    /\ r_pc = "returned"
    /\ Len(uploaded_gemini_files) >= 3
    /\ Len(backend_deletes) = Len(uploaded_gemini_files)
    /\ backend_deletes[2][2] # "ok"
    /\ final_url = "url"

\* C13: for total_pages >= 1 and num_fragments = n >= 1, with
\* q = total_pages div n, fragment i (0-indexed) below n-1 has the page range
\* [i*q, (i+1)*q) and the last one [(n-1)*q, total_pages): every fragment but
\* the last has q pages, the last has q + (total_pages mod n) pages, at most
\* n-1 more than the others.
C13_RangesByFloorQuotient ==
    (split_status \in {"ok", "ranges"} /\ total_pages >= 1 /\ num_fragments >= 1) =>
        LET n == num_fragments
            q == total_pages \div n
        IN  /\ Len(page_ranges) = n
            /\ \A i \in 0..(n - 2) :
                   /\ page_ranges[i + 1] = <<i * q, (i + 1) * q>>
                   /\ page_ranges[i + 1][2] - page_ranges[i + 1][1] = q
            /\ page_ranges[n] = <<(n - 1) * q, total_pages>>
            /\ page_ranges[n][2] - page_ranges[n][1] = q + (total_pages % n)
            /\ (page_ranges[n][2] - page_ranges[n][1]) - q <= n - 1

\* 50 pages in three fragments: [0,16), [16,32), [32,50)
C13_Witness ==
    /\ split_status = "ranges"
    /\ total_pages = 50
    /\ num_fragments = 3
    /\ page_ranges = <<(<<0, 16>>), (<<16, 32>>), (<<32, 50>>)>>

\* C15: the two classifications are distinct.  A failed invocation is
\* followed by another attempt only if, for the document/spreadsheet wrapper,
\* it raised an HttpError with status >= 500 (never a 429 or another 4xx,
\* never an error of another class) and, for the generative-model wrapper,
\* one of ResourceExhausted, InternalServerError, ServiceUnavailable,
\* DeadlineExceeded, Aborted (never an HttpError, whatever its status);
\* conversely such a failure is followed by another attempt whenever the
\* retry budget is not used up.
C15_ClassificationsDistinct ==
    \A i \in 1..Len(invocations) :
        (w_kind \in {"http", "gemini"} /\ invocations[i].res = "err") =>
            LET e == invocations[i].err
                retried == i < Len(invocations) \/ w_pc \in {"sleep", "try"}
                expected ==
                    IF w_kind = "http"
                    THEN e.cls = "HttpError" /\ e.status >= 500
                    ELSE e.cls \in {"ResourceExhausted", "InternalServerError",
                                    "ServiceUnavailable", "DeadlineExceeded",
                                    "Aborted"}
            IN  /\ (retried => expected)
                /\ ((expected /\ i < max_retries) => retried)
                /\ ((w_kind = "http" /\ e.status = 429) => ~retried)
                /\ ((w_kind = "http" /\ e.cls # "HttpError") => ~retried)
                /\ ((w_kind = "gemini" /\ e.cls = "HttpError") => ~retried)

\* the HTTP wrapper retried a 503 and then let a 429 out
C15_Witness ==
    /\ w_kind = "http"
    /\ Len(invocations) = 2
    /\ invocations[1].err = [cls |-> "HttpError", status |-> 503]
    /\ invocations[2].err = [cls |-> "HttpError", status |-> 429]
    /\ w_pc = "raised"
    /\ Len(sleeps) = 1

(***************************************************************************)
(* Properties of process_file_for_gemini (checked under SpecTransfer)      *)
(***************************************************************************)
\* what the invocations of the body did with the file, taken together
TransferEvents == UNION {Range(t_events[i]) : i \in DOMAIN t_events}

TransferCall == t_mode \in {"developer", "vertex"}

Oversize == file_size > 30 * 1024 * 1024

\* C11 as stated: in every mode and for every media type a document above
\* 30 MB is rejected before any split, inline read or upload, and nothing of
\* it is handed to the backend.
C11_OversizeNeverHandedOver ==
    (TransferCall /\ Oversize) =>
        /\ TransferEvents \cap {"split_pdf", "read", "upload"} = {}
        /\ t_uploads = <<>>
        /\ t_parts = <<>>
        /\ w_pc # "returned"

\* C11, amended: in ManagedPlatformMode a PDF above 30 MB is rejected before
\* any split, inline read or upload and nothing of it is handed over; the
\* other paths have no size limit: DeveloperMode uploads the document and
\* ManagedPlatformMode reads a non-PDF file inline, whatever the size.
C11_OversizePdfRejectedInManagedMode ==
    (TransferCall /\ Oversize) =>
        /\ (t_mode = "vertex" /\ t_mime = "application/pdf") =>
              /\ TransferEvents \subseteq {"getsize"}
              /\ t_uploads = <<>>
              /\ t_parts = <<>>
              /\ split_status \notin {"ok", "SizeExceeded"}
              /\ w_pc # "returned"
              /\ \A i \in 1..Len(invocations) :
                     invocations[i].res = "SizeExceeded"
        /\ (t_mode = "vertex" /\ t_mime # "application/pdf") =>
              /\ \A i \in 1..Len(t_events) : t_events[i] = <<"getsize", "read">>
              /\ (invocations # <<>> =>
                     w_pc = "returned" /\ Len(t_parts) = 1)
        /\ (t_mode = "developer") =>
              /\ \A i \in 1..Len(t_events) :
                     t_events[i] = <<"getsize", "upload">>
              /\ (w_pc = "returned" => Len(t_uploads) = 1 /\ Len(t_parts) = 1)

\* a PDF one byte above 30 MB, rejected in ManagedPlatformMode
C11_Witness ==
    /\ t_mode = "vertex"
    /\ t_mime = "application/pdf"
    /\ file_size = 30 * 1024 * 1024 + 1
    /\ w_pc = "raised"
    /\ t_events = <<(<<"getsize">>)>>

\* C12: in ManagedPlatformMode process_file_for_gemini on a PDF above 30 MB
\* fails with the size-exceeded error on its first invocation, before the
\* content is read, before the splitter runs and with no transfer unit; the
\* error is not transient: the wrapper never sleeps and never invokes the
\* body again.
C12_OversizePdfFailsAtOnce ==
    (t_mode = "vertex" /\ t_mime = "application/pdf" /\ Oversize) =>
        /\ w_pc \in {"start", "try", "raised"}
        /\ sleeps = <<>>
        /\ retries = 0
        /\ Len(invocations) <= 1
        /\ (w_pc = "raised" <=> Len(invocations) = 1)
        /\ (w_pc = "raised" =>
               /\ invocations[1].res = "SizeExceeded"
               /\ w_value = <<[cls |-> "ValueError", status |-> 0], 1>>
               /\ t_events = <<(<<"getsize">>)>>
               /\ t_parts = <<>>)

\* a 31 MB PDF: one invocation, the ValueError out, no sleep
C12_Witness ==
    /\ t_mode = "vertex"
    /\ t_mime = "application/pdf"
    /\ file_size = 31 * 1024 * 1024
    /\ w_pc = "raised"
    /\ w_value[1].cls = "ValueError"
    /\ Len(invocations) = 1
    /\ sleeps = <<>>

C16_DeveloperUploadsWholeOnce ==
    (t_mode = "developer" /\ w_pc = "returned") =>
        /\ "split_pdf" \notin TransferEvents
        /\ "read" \notin TransferEvents
        /\ split_status \notin {"ok", "SizeExceeded"}
        /\ \A i \in 1..Len(t_events) : t_events[i] = <<"getsize", "upload">>
        /\ Len(t_uploads) = 1
        /\ Len(t_parts) = 1
        /\ t_parts[1].kind = "file"
        /\ t_parts[1].name = t_uploads[1]
        /\ invocations[Len(invocations)].res = "ok"
        /\ \A i \in 1..(Len(invocations) - 1) : invocations[i].res # "ok"

\* a PDF above 30 MB, uploaded whole at the second attempt
C16_Witness ==
    /\ t_mode = "developer"
    /\ t_mime = "application/pdf"
    /\ file_size > 30 * 1024 * 1024
    /\ w_pc = "returned"
    /\ Len(invocations) = 2
    /\ Len(t_parts) = 1

MediumPdfReturned ==
    /\ t_mode = "vertex"
    /\ t_mime = "application/pdf"
    /\ file_size >= 10 * 1024 * 1024
    /\ file_size <= 30 * 1024 * 1024
    /\ w_pc = "returned"

\* what C17 says of every PDF from 10 MB to 30 MB: the splitter ran, one
\* inline unit per fragment, each tagged application/pdf, no upload
OneInlineUnitPerFragment ==
    /\ t_events = <<(<<"getsize", "split_pdf">>)>>
    /\ split_status = "ok"
    /\ Len(t_parts) = Len(output_fragments)
    /\ \A i \in 1..Len(t_parts) :
           /\ t_parts[i].kind = "inline"
           /\ t_parts[i].mime = "application/pdf"
           /\ t_parts[i].frag = i
    /\ t_uploads = <<>>

\* C17 as stated: ... and a 15 MB PDF yields exactly 2 inline transfer units.
C17_MediumPdfOneUnitPerFragment ==
    MediumPdfReturned =>
        /\ OneInlineUnitPerFragment
        /\ (file_size = 15 * 1024 * 1024 => Len(t_parts) = 2)

\* C17, amended: in ManagedPlatformMode, for a PDF with size in [10 MB, 30 MB],
\* process_file_for_gemini runs the splitter, returns exactly one inline unit
\* per fragment, each tagged application/pdf, and makes no upload call; a
\* 15 MB PDF with at least one page yields exactly 2 inline units, one
\* without pages yields none.
C17_MediumPdfOneUnitPerFragmentWithPages ==
    MediumPdfReturned =>
        /\ OneInlineUnitPerFragment
        /\ (file_size = 15 * 1024 * 1024 =>
               Len(t_parts) = IF total_pages >= 1 THEN 2 ELSE 0)

\* a 15 MB PDF of seven pages: two inline units
C17_Witness ==
    /\ MediumPdfReturned
    /\ file_size = 15 * 1024 * 1024
    /\ total_pages = 7
    /\ Len(t_parts) = 2
    /\ t_parts[2].mime = "application/pdf"

SmallOrUnsplittableReturned ==
    /\ t_mode = "vertex"
    /\ (file_size < 10 * 1024 * 1024 \/ t_mime # "application/pdf")
    /\ w_pc = "returned"

\* one inline unit with everything the file holds: the bytes read from the
\* file or, for a PDF, the single fragment with all of its pages
OneInlineUnitWithEverything ==
    /\ Len(t_parts) = 1
    /\ t_parts[1].kind = "inline"
    /\ t_parts[1].mime = t_mime
    /\ t_uploads = <<>>
    /\ IF t_mime = "application/pdf"
       THEN /\ t_parts[1].frag = 1
            /\ Len(output_fragments) = 1
            /\ output_fragments[1].pages = PyRange(0, total_pages)
       ELSE /\ t_parts[1].frag = 0
            /\ t_events = <<(<<"getsize", "read">>)>>

\* C18 as stated: in ManagedPlatformMode every small file (below 10 MB, PDF or
\* not) and every file of a non-splittable media type gives exactly one
\* inline unit holding the entire content.
C18_SmallOrUnsplittableOneUnit ==
    SmallOrUnsplittableReturned => OneInlineUnitWithEverything

\* C18, amended: ... every small PDF with at least one page and every file of
\* a non-splittable media type gives exactly one inline unit holding the
\* entire content; a small PDF without pages gives no unit.
C18_SmallOrUnsplittableOneUnitWithPages ==
    SmallOrUnsplittableReturned =>
        IF t_mime = "application/pdf" /\ total_pages = 0
        THEN t_parts = <<>>
        ELSE OneInlineUnitWithEverything

\* a 5 MB PDF of seven pages: one inline unit with the seven pages
C18_Witness ==
    /\ SmallOrUnsplittableReturned
    /\ t_mime = "application/pdf"
    /\ file_size = 5 * 1024 * 1024
    /\ total_pages = 7
    /\ Len(t_parts) = 1
    /\ Len(output_fragments[1].pages) = 7

(***************************************************************************)
(* Further properties of run() (checked under SpecRun)                     *)
(***************************************************************************)
\* C19: in ManagedPlatformMode the ledger is empty in every state of a run,
\* no upload call is made and cleanup makes no backend delete call.
C19_ManagedModeLedgerEmpty ==
    (mode = "vertex") =>
        /\ uploaded_gemini_files = <<>>
        /\ uploaded_files_to_track = <<>>
        /\ uploads = <<>>
        /\ backend_deletes = <<>>
        /\ delete_calls = <<>>
        /\ \A i \in 1..Len(checklist_parts) : checklist_parts[i].kind = "inline"
        /\ \A i \in 1..Len(sow_parts) : sow_parts[i].kind = "inline"

\* a complete second run in ManagedPlatformMode, cleanup done
C19_Witness ==
    /\ mode = "vertex"
    /\ run_no = 2
    /\ r_pc = "returned"
    /\ final_url = "url"
    /\ Last(phases) = "cleanup"
    /\ sow_parts # <<>>

\* C20: run() never ends by an exception of a phase.  It returns the report
\* URL exactly when the three phases completed without raising, None when a
\* phase raised, and in both cases cleanup has run before it returns; once a
\* phase raised no later phase starts.
C20_RunNeverPropagates ==
    /\ r_pc # "raised"
    /\ (failed_phase # "none" =>
           /\ r_pc \in {"cleanup_start", "cleanup", "return", "returned"}
           /\ final_url = "None"
           /\ \E k \in 1..Len(phases) :
                  /\ phases[k] = failed_phase
                  /\ \A j \in (k + 1)..Len(phases) : phases[j] = "cleanup")
    /\ (r_pc = "returned" =>
           /\ Last(phases) = "cleanup"
           /\ final_url \in {"url", "None"}
           /\ (final_url = "url" <=>
                  /\ failed_phase = "none"
                  /\ phases = <<"prepare", "analyze", "report", "cleanup">>))

\* the report phase raised: cleanup ran, run() returned None
C20_Witness ==
    /\ r_pc = "returned"
    /\ failed_phase = "report"
    /\ phases = <<"prepare", "analyze", "report", "cleanup">>
    /\ final_url = "None"

\* C21: checklist.csv and sow.pdf exist only while the method that wrote
\* them is at its transfer attempt: each is written right before
\* process_file_for_gemini and is gone when the method exits, whether the
\* transfer succeeded, failed after its retries, failed at once or failed on
\* the size; when run() has returned no temporary file is left.
C21_TempFilesScoped ==
    /\ temp_files =
         IF r_pc = "checklist_process" THEN {"checklist.csv"}
         ELSE IF r_pc = "sow_process" THEN {"sow.pdf"}
         ELSE {}
    /\ (r_pc = "returned" => temp_files = {})

\* ManagedPlatformMode, the SOW above 30 MB: the transfer of sow.pdf failed on
\* the size after the checklist went through, and run() has returned
C21_Witness ==
    /\ r_pc = "returned"
    /\ mode = "vertex"
    /\ sow_file[1] > 30 * 1024 * 1024
    /\ failed_phase = "prepare"
    /\ checklist_parts # <<>>
    /\ sow_parts = <<>>
    /\ temp_files = {}

(***************************************************************************)
(* Properties of the GeminiOrchestrator (checked under SpecGemini)         *)
(***************************************************************************)
\* C22: no message reaches the backend before the session is started:
\* send_message and prime_chat_context called with no session raise at once,
\* with no backend send, no retry and no sleep; start_chat_session called
\* before initialize_model_parameters raises and creates no session.
C22_NoSendBeforeSession ==
    /\ (g_chat = "None" => g_sends = 0)
    /\ ((g_last.op \in {"send_message", "prime_chat_context"} /\ g_chat = "None")
          => /\ g_last.res = "RuntimeError"
             /\ g_last.sends = 0
             /\ g_last.sleeps = 0
             /\ g_pc = "idle")
    /\ ((g_last.op = "start_chat_session" /\ g_model_name = "None")
          => /\ g_last.res = "RuntimeError"
             /\ ~g_last.created
             /\ g_chat = "None"
             /\ g_creates = 0)

\* send_message on an orchestrator whose model is initialized but whose
\* session was never started
C22_Witness ==
    /\ g_last.op = "send_message"
    /\ g_model_name = "model"
    /\ g_chat = "None"
    /\ g_last.res = "RuntimeError"
    /\ g_ops = 2

\* C24: upload_file without a media type, for a path whose type cannot be
\* guessed, fails with the unknown-media-type error before any size check,
\* read, split or upload; with a type given or guessed it yields exactly
\* what process_file_for_gemini yields for the file and that type (the given
\* type when there is one).
C24_UploadFileRoutes ==
    (g_last.op = "upload_file") =>
        IF g_last.given = "None" /\ g_last.guessed = "None"
        THEN /\ g_last.res = "UnknownMediaType"
             /\ g_last.events = <<>>
             /\ g_last.parts = <<>>
             /\ g_uploads = g_last.handle - 1
        ELSE LET mime == IF g_last.given = "None" THEN g_last.guessed
                         ELSE g_last.given
                 r == process_file_for_gemini(g_mode, mime, g_last.file[1],
                                              g_last.file[2], g_last.up_ok,
                                              g_last.handle)
             IN  /\ g_last.res = r.res
                 /\ g_last.parts = r.parts
                 /\ g_last.events = r.events

\* no type given and none guessed
C24_Witness ==
    /\ g_last.op = "upload_file"
    /\ g_last.given = "None"
    /\ g_last.guessed = "None"
    /\ g_last.res = "UnknownMediaType"

\* the units of the last transfer are all of the one kind the mode decides
UnitsOfOneKind ==
    (g_last.op \in {"upload_file", "process_file_for_gemini"}
       /\ g_last.res = "ok") =>
        \A i \in 1..Len(g_last.parts) :
            IF g_mode = "developer"
            THEN /\ g_last.parts[i].kind = "file"
                 /\ g_last.parts[i].name >= 1
                 /\ g_last.parts[i].mime = ""
            ELSE /\ g_last.parts[i].kind = "inline"
                 /\ g_last.parts[i].mime \in {"application/pdf", "text/csv"}
                 /\ g_last.parts[i].name = 0

\* C26: the mode of a GeminiOrchestrator never changes after construction,
\* whatever methods are called, and every list process_file_for_gemini
\* returns holds units of one kind only, the kind of the mode: reference
\* handles in DeveloperMode, inline bytes with a media type in
\* ManagedPlatformMode.
C26_ModeFixedOneKindOfUnit ==
    /\ [][g_mode' = g_mode]_vars
    /\ []UnitsOfOneKind

\* ManagedPlatformMode, the third call: a PDF split in two inline units
C26_Witness ==
    /\ g_mode = "vertex"
    /\ g_ops = 3
    /\ g_last.op = "process_file_for_gemini"
    /\ Len(g_last.parts) = 2
    /\ g_chat = "session"

C25_FragmentsAscending ==
    /\ (split_status = "ok" =>
           /\ \A i \in 1..Len(output_fragments) :
                  /\ output_fragments[i].name = <<i, num_fragments>>
                  /\ output_fragments[i].start = page_ranges[i][1]
           /\ \A i \in 1..Len(output_fragments) :
              \A j \in 1..Len(output_fragments) :
                  i < j => output_fragments[i].end <= output_fragments[j].start)
    /\ ((mode = "vertex" /\ sow_parts # <<>>) =>
           /\ split_status = "ok"
           /\ Len(sow_parts) = Len(output_fragments)
           /\ \A i \in 1..Len(sow_parts) :
                  sow_parts[i].frag = output_fragments[i].name[1])
    /\ \A k \in 1..Len(sent) :
           (sent[k][1] = "prime" /\ sent[k][2] = 2) =>
               /\ Len(sent[k][3]) = 1 + Len(sow_parts)
               /\ sent[k][3][1].kind = "text"
               /\ \A i \in 1..Len(sow_parts) : sent[k][3][i + 1] = sow_parts[i]

\* a 25 MB SOW of seven pages in ManagedPlatformMode: three fragments, sent
\* with prompt 2 in their order
C25_Witness ==
    /\ mode = "vertex"
    /\ sow_file = <<25 * 1024 * 1024, 7>>
    /\ Len(sow_parts) = 3
    /\ Len(sent) = 2
    /\ sent[2][2] = 2
    /\ Len(sent[2][3]) = 4
    /\ sent[2][3][4].frag = 3

(***************************************************************************)
(* Further properties of the retry decorators                              *)
(***************************************************************************)
\* the k-th sleep is no shorter than backoff_factor * 2^(k-1): the first is
\* backoff_factor, each next one twice the one before; the sleep just taken
\* is at most one second longer than its minimum
SleepsDouble ==
    /\ (Len(sleeps) >= 1 => sleeps[1] = backoff_factor)
    /\ \A k \in 1..(Len(sleeps) - 1) :
           /\ sleeps[k + 1] = 2 * sleeps[k]
           /\ (backoff_factor > 0 => sleeps[k + 1] > sleeps[k])
    /\ (Len(sleeps) >= 1 =>
           /\ last_sleep >= 10 * sleeps[Len(sleeps)]
           /\ last_sleep <= 10 * sleeps[Len(sleeps)] + 10)
    /\ (w_pc \in {"try", "sleep", "returned", "raised"} =>
           retries \in {Len(sleeps), Len(sleeps) + 1})

\* C27: in both wrappers the sleep after the k-th transient failure lasts at
\* least backoff_factor * 2^(k-1) and at most that plus 1; the minimum grows
\* strictly (doubles) with k for a positive backoff_factor; the retry counter
\* behind the exponent is never reset (never decreases) within the call.
C27_BackoffDoubles ==
    /\ []SleepsDouble
    /\ [][retries' >= retries /\ retries' <= retries + 1]_vars

\* four sleeps of the Gemini wrapper with backoff_factor 2: 2, 4, 8, 16
C27_Witness ==
    /\ w_kind = "gemini"
    /\ backoff_factor = 2
    /\ sleeps = <<2, 4, 8, 16>>
    /\ last_sleep = 165
    /\ retries = 4

\* the transient failures so far that max_retries lets be retried
RetriedFailures ==
    {i \in 1..Len(invocations) : FailedTransient(i) /\ i < max_retries}

C30_Bounds ==
    (max_retries >= 1 /\ w_kind \in {"http", "gemini"}) =>
        /\ Len(invocations) <= max_retries
        /\ Len(sleeps) <= max_retries - 1
        /\ Len(sleeps) + (IF w_pc = "sleep" THEN 1 ELSE 0)
              = Cardinality(RetriedFailures)
        /\ (w_pc \in {"start", "try"} => Len(sleeps) = Len(invocations))
        /\ (w_pc \in {"sleep", "returned", "raised"} =>
               Len(sleeps) = Len(invocations) - 1)
        /\ (Len(invocations) = max_retries => w_pc \in {"returned", "raised"})

\* C30: in a wrapped call with max_retries = N >= 1, under either wrapper and
\* for every sequence of outcomes: at most N invocations are made; the sleeps
\* made are as many as the transient failures that are retried, at most N-1;
\* every sleep lies between two invocations, none follows the last one; and
\* the call ends, after at most N invocations.
C30_WrapperBounded ==
    /\ []C30_Bounds
    /\ ((max_retries >= 1) => <>(w_pc \in {"returned", "raised"}))

\* success at the third and last attempt allowed
C30_Witness ==
    /\ w_kind = "http"
    /\ max_retries = 3
    /\ w_pc = "returned"
    /\ Len(invocations) = 3
    /\ Len(sleeps) = 2

(***************************************************************************)
(* The order of the phases (checked under SpecRun)                         *)
(***************************************************************************)
PhaseRank(ph) ==
    CASE ph = "prepare" -> 1
      [] ph = "analyze" -> 2
      [] ph = "report"  -> 3
      [] OTHER          -> 4

\* the phases of the current run other than cleanup
WorkPhases == SelectSeq(phases, LAMBDA ph : ph # "cleanup")

PhasesInOrder ==
    /\ \A i \in 1..Len(phases) : \A j \in 1..Len(phases) :
           i < j => PhaseRank(phases[i]) < PhaseRank(phases[j])
    /\ IsPrefix(WorkPhases, <<"prepare", "analyze", "report">>)
    /\ ("analyze" \in Range(phases) =>
           /\ chat = "session"
           /\ prime_idx = n_prompts)
    /\ ("report" \in Range(phases) => analysis_text # "none")
    /\ (failed_phase # "none" =>
           /\ WorkPhases # <<>>
           /\ Last(WorkPhases) = failed_phase
           /\ r_pc \in {"cleanup_start", "cleanup", "return", "returned"})
    /\ (failed_phase = "prepare" =>
           /\ \A k \in 1..Len(sent) : sent[k][1] # "analysis"
           /\ report_calls = <<>>)
    /\ (failed_phase = "analyze" =>
           /\ analysis_text = "none"
           /\ report_calls = <<>>)

\* C28: the phases of a run execute in the order prepare, analyze, report,
\* cleanup, each at most once; a phase starts only when every earlier
\* non-cleanup phase completed without raising: after a raise no later
\* non-cleanup phase starts (no analysis send after a failed preparation, no
\* Drive or Sheets call after a failed analysis).
C28_PhasesInOrder ==
    /\ []PhasesInOrder
    /\ [][(r_pc \notin {"idle", "returned"}) =>
             (phases' = phases \/ \E ph \in {"analyze", "report", "cleanup"} :
                                     phases' = Append(phases, ph))]_vars

\* the analysis raised: cleanup follows, the report phase never started
C28_Witness ==
    /\ r_pc = "returned"
    /\ failed_phase = "analyze"
    /\ phases = <<"prepare", "analyze", "cleanup">>
    /\ report_calls = <<>>
    /\ Len(sent) = n_prompts

(***************************************************************************)
(* Properties of the Drive downloads (checked under SpecDrive)             *)
(***************************************************************************)
\* C29: in one call of download_file_content or export_file with the default
\* policy the network download is attempted at most max_retries = 5 times and
\* at most max_retries - 1 = 4 sleeps are made before the call returns or
\* raises, whatever the sequence of 5xx failures.
C29_DownloadAttemptsBounded ==
    (d_op \in {"download_file_content", "export_file"}) =>
        /\ d_downloads <= 5
        /\ d_sleeps <= 4

(***************************************************************************)
(* The HTTP wrapper with any max_retries (checked under SpecRetry)         *)
(***************************************************************************)
\* C31: for every max_retries, 0 and negative values included, a call through
\* the HTTP retry wrapper invokes the wrapped operation at least once before
\* it ends, and it returns normally only with the value a successful
\* invocation returned.
C31_HttpWrapperInvokesAndReturnsResult ==
    (w_kind = "http" /\ w_pc \in {"returned", "raised"}) =>
        /\ Len(invocations) >= 1
        /\ (w_pc = "returned" =>
               /\ invocations[Len(invocations)].res = "ok"
               /\ w_value = <<[cls |-> "Result", status |-> 0], Len(invocations)>>)

(***************************************************************************)
(* The two wrappers compared (checked under SpecPair)                      *)
(***************************************************************************)
\* C32: with the same max_retries, the same backoff_factor and the same
\* sequence of outcomes, once both wrappers have ended they have made the same
\* number of invocations and the same sleeps with the same minimum durations,
\* and have ended alike: with the same result or the same re-raised error,
\* for every max_retries.
C32_WrappersEquivalent ==
    (p_http.pc \in {"returned", "raised"} /\ p_gemini.pc \in {"returned", "raised"}) =>
        /\ p_http.invocations = p_gemini.invocations
        /\ p_http.sleeps = p_gemini.sleeps
        /\ p_http.pc = p_gemini.pc
        /\ p_http.value = p_gemini.value

(***************************************************************************)
(* The priming sequence and the second run (checked under SpecRun)         *)
(***************************************************************************)
\* the places of the priming sequence seq where the unit p is attached
AttachedAt(seq, p) ==
    {jk \in (1..Len(seq)) \X (1..(MaxNumFragments + 2)) :
        /\ jk[2] <= Len(seq[jk[1]])
        /\ seq[jk[1]][jk[2]] = p}

\* C33: when load() has returned, every unit the loader prepared is attached
\* to exactly one prompt of the sequence it returns, whatever the number of
\* prompts parsed: each checklist part to the prompt with id 1 only, each SOW
\* part to the prompt with id 2 only, and none is left unattached.
C33_EveryUnitAttachedOnce ==
    (r_pc = "start_chat") =>
        LET seq == LoadSequence(n_prompts, checklist_parts, sow_parts)
        IN  /\ \A i \in 1..Len(checklist_parts) :
                  /\ Cardinality(AttachedAt(seq, checklist_parts[i])) = 1
                  /\ \A jk \in AttachedAt(seq, checklist_parts[i]) : jk[1] = 1
            /\ \A i \in 1..Len(sow_parts) :
                  /\ Cardinality(AttachedAt(seq, sow_parts[i])) = 1
                  /\ \A jk \in AttachedAt(seq, sow_parts[i]) : jk[1] = 2

\* the messages sent so far are the priming prompts 1..k in this order,
\* followed at most by the analysis message, which comes after all n_prompts
PrimingInOrder ==
    \A i \in 1..Len(sent) :
        IF sent[i][1] = "prime"
        THEN /\ sent[i][2] = i
             /\ i <= n_prompts
        ELSE /\ i = n_prompts + 1
             /\ \A j \in 1..(i - 1) : sent[j][1] = "prime" /\ sent[j][2] = j

\* a step that leaves the priming loop without having sent the last prompt
\* is the failure of a send: the prepare phase has failed
PrimingFailureStops ==
    /\ (r_pc = "prime" /\ r_pc' # "prime" /\ Len(sent') < n_prompts) =>
           /\ failed_phase' = "prepare"
           /\ sent' = sent
           /\ "analyze" \notin Range(phases')
    /\ (failed_phase = "prepare" /\ run_no' = run_no) => sent' = sent

\* C34: priming sends the prompts one at a time in ascending order; when the
\* send of a prompt fails for good no later prompt is sent and the prepare
\* phase fails; the analysis message is sent only after every priming prompt
\* has been sent.
C34_PrimingSequentialThenAnalysis ==
    []PrimingInOrder /\ [][PrimingFailureStops]_vars

\* two prompts primed and the analysis message sent after them
C34_Witness ==
    /\ n_prompts = 2
    /\ Len(sent) = 3
    /\ sent[2] = <<"prime", 2, <<[kind |-> "text", mime |-> "", frag |-> 0, name |-> 2]>>
                                  \o sow_parts>>
    /\ sent[3][1] = "analysis"

\* C35: once run() has returned the ledger holds no handle that cleanup has
\* processed, and over all the runs of one orchestrator no handle is passed
\* to gemini.delete_file twice.
C35_NoHandleDeletedTwice ==
    LET all_deletes == deleted_before \o delete_calls
    IN  /\ (r_pc = "returned") =>
               \A i \in 1..Len(uploaded_gemini_files) :
                   uploaded_gemini_files[i] \notin Range(delete_calls)
        /\ \A i, j \in 1..Len(all_deletes) :
               i # j => all_deletes[i] # all_deletes[j]

\* the calls of the report phase, in the order of _generate_report
ReportCallsInOrder ==
    <<"find_or_create_folder", "get_file_metadata", "copy_file", "write_data">>

\* C36: a failure to fetch the SOW's metadata does not fail the report phase:
\* the step after get_file_metadata is the template copy, with the default
\* title when the fetch failed; the phase fails only in another call; the
\* copy and the sheet write follow in that order and the URL is returned
\* when they succeed.
C36_MetadataFailureTolerated ==
    /\ [](/\ (failed_phase = "report" /\ report_calls # <<>>) =>
                 report_calls[Len(report_calls)] # "get_file_metadata"
          /\ (copy_title = "default") =>
                 /\ Len(report_calls) <= 4
                 /\ \A i \in 1..Len(report_calls) :
                        report_calls[i] = ReportCallsInOrder[i]
                 /\ (Len(report_calls) = 4 /\ failed_phase = "none"
                         => final_url = "url"))
    /\ [][(r_pc = "get_metadata") =>
              /\ r_pc' = "copy_file"
              /\ failed_phase' = failed_phase
              /\ copy_title' \in {"sow_name", "default"}]_vars

\* the metadata fetch failed and the report was still made, under the default
\* title
C36_Witness ==
    /\ copy_title = "default"
    /\ report_calls = <<"find_or_create_folder", "get_file_metadata",
                        "copy_file", "write_data">>
    /\ final_url = "url"
    /\ r_pc = "returned"

====
